---- MODULE Spec2Model ----
(***************************************************************************)
(* Verification model of the tao-trade simulation engine: the constant-    *)
(* product pool (models/subnet.py), the account ledger (models/account.py) *)
(* and the per-block state transition (models/subtensor.py) driven by the  *)
(* block loop of core/engine.py.                                           *)
(*                                                                         *)
(* Python floats are modelled as exact rationals <<n, d>> in lowest terms  *)
(* with d > 0, so that equality of two values is equality of tuples.       *)
(* Statements of the form "a == b" are therefore statements about the      *)
(* real-number semantics of the code, i.e. up to floating-point rounding.  *)
(* A float division by zero raises ZeroDivisionError in Python; operators  *)
(* that can raise return a record with a "raised" flag and leave the       *)
(* object untouched, exactly as the code does when the exception leaves    *)
(* the method before its first assignment.                                 *)
(***************************************************************************)
EXTENDS Integers, Sequences, FiniteSets, TLC

\* ------------------------------------------------------------------------
\* Rational arithmetic (the float operators + - * / < == of the source)
\* ------------------------------------------------------------------------

Abs(x) == IF x < 0 THEN -x ELSE x

RECURSIVE GCD(_, _)
GCD(a, b) == IF b = 0 THEN a ELSE GCD(b, a % b)

\* the rational n/d in lowest terms with a positive denominator (d # 0)
Rat(n, d) ==
    LET g == GCD(Abs(n), Abs(d))
        s == IF d < 0 THEN -1 ELSE 1
    IN  <<(s * n) \div g, (s * d) \div g>>

Zero == <<0, 1>>
One == <<1, 1>>
Half == <<1, 2>>

FromInt(i) == <<i, 1>>

\* common factors are cancelled before multiplying, which keeps the
\* intermediate products small
RAdd(a, b) ==
    LET g == GCD(a[2], b[2])
    IN  Rat(a[1] * (b[2] \div g) + b[1] * (a[2] \div g), (a[2] \div g) * b[2])
RNeg(a) == <<-a[1], a[2]>>
RSub(a, b) == RAdd(a, RNeg(b))
RMul(a, b) ==
    LET g1 == GCD(Abs(a[1]), b[2])
        g2 == GCD(Abs(b[1]), a[2])
    IN  <<(a[1] \div g1) * (b[1] \div g2), (a[2] \div g2) * (b[2] \div g1)>>
\* only evaluated where the code has already excluded b == 0
RDiv(a, b) ==
    RMul(a, IF b[1] < 0 THEN <<-b[2], -b[1]>> ELSE <<b[2], b[1]>>)
RLt(a, b) ==
    LET g == GCD(a[2], b[2])
    IN  a[1] * (b[2] \div g) < b[1] * (a[2] \div g)
RLe(a, b) == a = b \/ RLt(a, b)
RMax(a, b) == IF RLt(a, b) THEN b ELSE a

\* sum(f[x] for x in S), S a finite set
RECURSIVE RSum(_, _)
RSum(f, S) ==
    IF S = {} THEN Zero
    ELSE LET x == CHOOSE y \in S : TRUE
         IN  RAdd(f[x], RSum(f, S \ {x}))

\* ------------------------------------------------------------------------
\* Subnet (models/subnet.py)
\* ------------------------------------------------------------------------

\* dataclass constructor followed by __post_init__
Subnet(id, tao_in, alpha_in, alpha_out, is_root) ==
    [id |-> id, tao_in |-> tao_in, alpha_in |-> alpha_in,
     alpha_out |-> alpha_out, is_root |-> is_root,
     k |-> IF ~is_root THEN RMul(tao_in, alpha_in) ELSE Zero]

alpha_price(s) ==
    IF s.is_root \/ s.alpha_in = Zero THEN One
    ELSE RDiv(s.tao_in, s.alpha_in)

weight(s, alpha_amount) ==
    IF s.is_root THEN alpha_amount
    ELSE IF s.alpha_out = Zero THEN Zero
         ELSE RMul(RDiv(alpha_amount, s.alpha_out), s.tao_in)

\* result of a call that raised before changing the object
Raised(s) == [raised |-> TRUE, subnet |-> s, ret |-> Zero]

\* stake that forgets line 91 (self.tao_in = new_tao_in)
stake_keeps_tao_in(s, tao_amount) ==
    IF s.is_root
    THEN [raised |-> FALSE,
          subnet |-> [s EXCEPT !.alpha_out = RAdd(s.alpha_out, tao_amount)],
          ret |-> tao_amount]
    ELSE LET new_tao_in == RAdd(s.tao_in, tao_amount) IN
         IF new_tao_in = Zero THEN Raised(s)
         ELSE LET new_alpha_in == RDiv(s.k, new_tao_in)
                  alpha_bought == RSub(s.alpha_in, new_alpha_in)
              IN  [raised |-> FALSE,
                   subnet |-> [s EXCEPT !.alpha_out = RAdd(s.alpha_out, alpha_bought),
                                        !.alpha_in = new_alpha_in],
                   ret |-> alpha_bought]

\* stake at the spot price: lines 86-88 as if alpha_bought were
\* tao_amount * alpha_in / tao_in, with the reserves moved by these amounts
stake_spot_price(s, tao_amount) ==
    IF s.is_root
    THEN [raised |-> FALSE,
          subnet |-> [s EXCEPT !.alpha_out = RAdd(s.alpha_out, tao_amount)],
          ret |-> tao_amount]
    ELSE IF s.tao_in = Zero THEN Raised(s)
    ELSE LET alpha_bought == RDiv(RMul(tao_amount, s.alpha_in), s.tao_in)
         IN  [raised |-> FALSE,
              subnet |-> [s EXCEPT !.alpha_out = RAdd(s.alpha_out, alpha_bought),
                                   !.alpha_in = RSub(s.alpha_in, alpha_bought),
                                   !.tao_in = RAdd(s.tao_in, tao_amount)],
              ret |-> alpha_bought]

stake(s, tao_amount) ==
    IF s.is_root
    THEN [raised |-> FALSE,
          subnet |-> [s EXCEPT !.alpha_out = RAdd(s.alpha_out, tao_amount)],
          ret |-> tao_amount]
    ELSE LET new_tao_in == RAdd(s.tao_in, tao_amount) IN
         IF new_tao_in = Zero THEN Raised(s)
         ELSE LET new_alpha_in == RDiv(s.k, new_tao_in)
                  alpha_bought == RSub(s.alpha_in, new_alpha_in)
              IN  [raised |-> FALSE,
                   subnet |-> [s EXCEPT !.alpha_out = RAdd(s.alpha_out, alpha_bought),
                                        !.alpha_in = new_alpha_in,
                                        !.tao_in = new_tao_in],
                   ret |-> alpha_bought]

\* unstake that divides k by the old alpha_in instead of new_alpha_in
unstake_old_alpha(s, alpha_amount) ==
    IF s.is_root
    THEN [raised |-> FALSE,
          subnet |-> [s EXCEPT !.alpha_out = RSub(s.alpha_out, alpha_amount)],
          ret |-> alpha_amount]
    ELSE LET new_alpha_in == RAdd(s.alpha_in, alpha_amount) IN
         IF s.alpha_in = Zero THEN Raised(s)
         ELSE LET new_tao_in == RDiv(s.k, s.alpha_in)
                  tao_bought == RSub(s.tao_in, new_tao_in)
              IN  [raised |-> FALSE,
                   subnet |-> [s EXCEPT !.alpha_out = RSub(s.alpha_out, alpha_amount),
                                        !.alpha_in = new_alpha_in,
                                        !.tao_in = new_tao_in],
                   ret |-> tao_bought]

\* unstake whose root branch adds to alpha_out as stake does
unstake_root_adds(s, alpha_amount) ==
    IF s.is_root
    THEN [raised |-> FALSE,
          subnet |-> [s EXCEPT !.alpha_out = RAdd(s.alpha_out, alpha_amount)],
          ret |-> alpha_amount]
    ELSE LET new_alpha_in == RAdd(s.alpha_in, alpha_amount) IN
         IF new_alpha_in = Zero THEN Raised(s)
         ELSE LET new_tao_in == RDiv(s.k, new_alpha_in)
                  tao_bought == RSub(s.tao_in, new_tao_in)
              IN  [raised |-> FALSE,
                   subnet |-> [s EXCEPT !.alpha_out = RSub(s.alpha_out, alpha_amount),
                                        !.alpha_in = new_alpha_in,
                                        !.tao_in = new_tao_in],
                   ret |-> tao_bought]

unstake(s, alpha_amount) ==
    IF s.is_root
    THEN [raised |-> FALSE,
          subnet |-> [s EXCEPT !.alpha_out = RSub(s.alpha_out, alpha_amount)],
          ret |-> alpha_amount]
    ELSE LET new_alpha_in == RAdd(s.alpha_in, alpha_amount) IN
         IF new_alpha_in = Zero THEN Raised(s)
         ELSE LET new_tao_in == RDiv(s.k, new_alpha_in)
                  tao_bought == RSub(s.tao_in, new_tao_in)
              IN  [raised |-> FALSE,
                   subnet |-> [s EXCEPT !.alpha_out = RSub(s.alpha_out, alpha_amount),
                                        !.alpha_in = new_alpha_in,
                                        !.tao_in = new_tao_in],
                   ret |-> tao_bought]

\* inject without line 139: k keeps the value it had
inject_stale_k(s, tao_amount, alpha_amount, alpha_out) ==
    [s EXCEPT !.tao_in = RAdd(s.tao_in, tao_amount),
              !.alpha_in = RAdd(s.alpha_in, alpha_amount),
              !.alpha_out = RAdd(s.alpha_out, alpha_out)]

inject(s, tao_amount, alpha_amount, alpha_out) ==
    LET t == RAdd(s.tao_in, tao_amount)
        a == RAdd(s.alpha_in, alpha_amount)
    IN  [s EXCEPT !.tao_in = t,
                  !.alpha_in = a,
                  !.alpha_out = RAdd(s.alpha_out, alpha_out),
                  !.k = RMul(t, a)]

\* ------------------------------------------------------------------------
\* Account (models/account.py); alpha_stakes is a dict, modelled as a
\* function whose DOMAIN is the set of keys present
\* ------------------------------------------------------------------------

Account(id, free_balance, registered_subnets, alpha_stakes) ==
    [id |-> id, free_balance |-> free_balance,
     registered_subnets |-> registered_subnets,
     alpha_stakes |-> alpha_stakes]

EmptyDict == [x \in {} |-> Zero]

\* d.get(key, 0.0)
Get(d, key) == IF key \in DOMAIN d THEN d[key] ELSE Zero

\* d[key] = val
Put(d, key, val) ==
    IF key \in DOMAIN d THEN [d EXCEPT ![key] = val] ELSE (key :> val) @@ d

\* a dict comprehension {key: value for ...}, built as a table
Dict(f) == f @@ EmptyDict

\* ------------------------------------------------------------------------
\* Amount strings (Transaction.amount) are sequences of one-character
\* strings; float() is modelled on unsigned decimal integers, the only
\* literals the scenarios use, and raises ValueError on anything else
\* ------------------------------------------------------------------------

Digits == <<"0", "1", "2", "3", "4", "5", "6", "7", "8", "9">>

IsDigit(c) == \E i \in 1..10 : Digits[i] = c

DigitVal(c) == (CHOOSE i \in 1..10 : Digits[i] = c) - 1

RECURSIVE ParseDigits(_, _)
ParseDigits(str, acc) ==
    IF str = <<>> THEN acc
    ELSE ParseDigits(Tail(str), 10 * acc + DigitVal(Head(str)))

\* float(str)
ParseFloat(str) ==
    IF str # <<>> /\ \A i \in 1..Len(str) : IsDigit(str[i])
    THEN [raised |-> FALSE, val |-> FromInt(ParseDigits(str, 0))]
    ELSE [raised |-> TRUE, val |-> Zero]

\* str.strip('%')
RECURSIVE StripLeft(_)
StripLeft(str) ==
    IF str # <<>> /\ Head(str) = "%" THEN StripLeft(Tail(str)) ELSE str

RECURSIVE StripRight(_)
StripRight(str) ==
    IF str # <<>> /\ str[Len(str)] = "%"
    THEN StripRight(SubSeq(str, 1, Len(str) - 1)) ELSE str

Strip(str) == StripRight(StripLeft(str))

\* line 71 as if the percentage were taken of 1.0, not of total
parse_amount_percent_of_one(amount, total) ==
    IF amount = <<"a", "l", "l">> THEN [raised |-> FALSE, val |-> total]
    ELSE IF \E i \in 1..Len(amount) : amount[i] = "%"
    THEN LET f == ParseFloat(Strip(amount)) IN
         IF f.raised THEN f
         ELSE [raised |-> FALSE, val |-> RDiv(f.val, FromInt(100))]
    ELSE ParseFloat(amount)

parse_amount(amount, total) ==
    IF amount = <<"a", "l", "l">> THEN [raised |-> FALSE, val |-> total]
    ELSE IF \E i \in 1..Len(amount) : amount[i] = "%"
    THEN LET f == ParseFloat(Strip(amount)) IN
         IF f.raised THEN f
         ELSE [raised |-> FALSE,
               val |-> RDiv(RMul(total, f.val), FromInt(100))]
    ELSE ParseFloat(amount)

\* ------------------------------------------------------------------------
\* Subtensor (models/subtensor.py).  self.subnets and self.accounts are
\* dicts keyed by id; the scenarios list them in ascending id order, which
\* is the order Python iterates them in.
\* ------------------------------------------------------------------------

RECURSIVE Ordered(_)
Ordered(S) ==
    IF S = {} THEN <<>>
    ELSE LET m == CHOOSE x \in S : \A y \in S : x <= y
         IN  <<m>> \o Ordered(S \ {m})

NonRoot(subnets) == {sid \in DOMAIN subnets : ~subnets[sid].is_root}

\* _calculate_emission without the "if not s.is_root" filter of line 210
calculate_emission_with_root(subnets) ==
    LET emission == Dict([sid \in DOMAIN subnets |-> subnets[sid].tao_in])
        total == RSum(emission, DOMAIN emission)
    IN  Dict([sid \in DOMAIN emission |->
                IF total # Zero THEN RDiv(emission[sid], total) ELSE Zero])

calculate_emission(subnets) ==
    LET emission == Dict([sid \in NonRoot(subnets) |-> subnets[sid].tao_in])
        total == RSum(emission, DOMAIN emission)
    IN  Dict([sid \in DOMAIN emission |->
                IF total # Zero THEN RDiv(emission[sid], total) ELSE Zero])

\* sum(s.alpha_price() for s in self.subnets.values() if not s.is_root)
SumPrices(subnets) ==
    RSum([sid \in NonRoot(subnets) |-> alpha_price(subnets[sid])], NonRoot(subnets))

update_root_weight(initial_root_weight_, blocks_, current_block) ==
    LET weight_decrease_per_block == RDiv(initial_root_weight_, FromInt(blocks_))
    IN  RMax(Zero, RSub(initial_root_weight_,
                        RMul(FromInt(current_block), weight_decrease_per_block)))

calculate_weights(subnets_, accounts_, root_weight_) ==
    LET held(acc) == DOMAIN accounts_[acc].alpha_stakes \cap DOMAIN subnets_
        keys == {acc \in DOMAIN accounts_ : held(acc) # {}}
    IN  Dict([acc \in keys |->
            RSum([sid \in held(acc) |->
                    LET alpha == accounts_[acc].alpha_stakes[sid]
                    IN  weight(subnets_[sid],
                               IF subnets_[sid].is_root
                               THEN RMul(alpha, root_weight_) ELSE alpha)],
                 held(acc))])

\* lines 253-259 without the divisions by total_global and total_local: the
\* weights themselves are handed out as shares
calculate_dividends_raw_weights(subnets_, accounts_, root_weight_, global_split_, subnet_id) ==
    IF subnet_id \notin DOMAIN subnets_ THEN EmptyDict
    ELSE
    LET subnet == subnets_[subnet_id]
        weights == calculate_weights(subnets_, accounts_, root_weight_)
        local_weights ==
            Dict([acc \in {a \in DOMAIN accounts_ :
                              subnet_id \in DOMAIN accounts_[a].alpha_stakes} |->
                    weight(subnet, Get(accounts_[acc].alpha_stakes, subnet_id))])
    IN  Dict([acc \in DOMAIN accounts_ |->
            RAdd(RMul(global_split_, Get(weights, acc)),
                 RMul(RSub(One, global_split_), Get(local_weights, acc)))])

calculate_dividends(subnets_, accounts_, root_weight_, global_split_, subnet_id) ==
    IF subnet_id \notin DOMAIN subnets_ THEN EmptyDict
    ELSE
    LET subnet == subnets_[subnet_id]
        weights == calculate_weights(subnets_, accounts_, root_weight_)
        local_weights ==
            Dict([acc \in {a \in DOMAIN accounts_ :
                              subnet_id \in DOMAIN accounts_[a].alpha_stakes} |->
                    weight(subnet, Get(accounts_[acc].alpha_stakes, subnet_id))])
        total_local == RSum(local_weights, DOMAIN local_weights)
        total_global == RSum(weights, DOMAIN weights)
    IN  Dict([acc \in DOMAIN accounts_ |->
            RAdd(RMul(global_split_,
                      IF total_global # Zero
                      THEN RDiv(Get(weights, acc), total_global) ELSE Zero),
                 RMul(RSub(One, global_split_),
                      IF total_local # Zero
                      THEN RDiv(Get(local_weights, acc), total_local) ELSE Zero))])

emission_val == 1

\* the accrual loop without the registration test of line 158
RECURSIVE Accrue_ungated(_, _, _, _)
Accrue_ungated(items, accounts_, subnet_id, dividends) ==
    IF items = <<>> THEN accounts_
    ELSE LET acc_id == Head(items)
             div == dividends[acc_id]
             accounts1 ==
                [accounts_ EXCEPT ![acc_id].alpha_stakes =
                    Put(@, subnet_id,
                        RAdd(Get(@, subnet_id),
                             RMul(div, FromInt(emission_val))))]
         IN  Accrue_ungated(Tail(items), accounts1, subnet_id, dividends)

\* lines 157-161: the accrual loop over dividends.items() for one subnet
RECURSIVE Accrue(_, _, _, _)
Accrue(items, accounts_, subnet_id, dividends) ==
    IF items = <<>> THEN accounts_
    ELSE LET acc_id == Head(items)
             div == dividends[acc_id]
             accounts1 ==
                IF subnet_id \in accounts_[acc_id].registered_subnets
                THEN [accounts_ EXCEPT ![acc_id].alpha_stakes =
                        Put(@, subnet_id,
                            RAdd(Get(@, subnet_id),
                                 RMul(div, FromInt(emission_val))))]
                ELSE accounts_
         IN  Accrue(Tail(items), accounts1, subnet_id, dividends)

\* the loop with the emission shares recomputed for each subnet instead of
\* taken from the emit of line 141
RECURSIVE StepLoop_fresh_emission(_, _, _, _, _, _, _)
StepLoop_fresh_emission(order, st, emit, sum_prices, balanced_, root_weight_, global_split_) ==
    IF order = <<>> THEN st
    ELSE
    LET sid == Head(order)
        subnet == st.subnets[sid]
    IN  IF subnet.is_root
        THEN StepLoop_fresh_emission(Tail(order), st, emit, sum_prices, balanced_,
                                     root_weight_, global_split_)
        ELSE
        LET tao_amount == IF RLt(sum_prices, One) \/ ~balanced_
                          THEN RMul(Get(calculate_emission(st.subnets), sid),
                                    FromInt(emission_val))
                          ELSE Zero
            alpha_amount == IF ~RLt(sum_prices, One) /\ balanced_
                            THEN FromInt(emission_val) ELSE Zero
            dividends == calculate_dividends(st.subnets, st.accounts, root_weight_,
                                             global_split_, sid)
            accounts1 == Accrue(Ordered(DOMAIN dividends), st.accounts, sid, dividends)
            subnet1 == inject(subnet, tao_amount, alpha_amount, FromInt(emission_val))
            st1 == [subnets |-> [st.subnets EXCEPT ![sid] = subnet1],
                    accounts |-> accounts1,
                    injects |-> Append(st.injects,
                                  [id |-> sid, tao_amount |-> tao_amount,
                                   alpha_amount |-> alpha_amount,
                                   alpha_out |-> FromInt(emission_val),
                                   dividends |-> dividends,
                                   before |-> subnet])]
        IN  StepLoop_fresh_emission(Tail(order), st1, emit, sum_prices, balanced_,
                                    root_weight_, global_split_)

\* the loop with line 163 (subnet.inject) moved above line 156: the
\* dividends of a subnet are computed on the subnet after its injection
RECURSIVE StepLoop_inject_first(_, _, _, _, _, _, _)
StepLoop_inject_first(order, st, emit, sum_prices, balanced_, root_weight_, global_split_) ==
    IF order = <<>> THEN st
    ELSE
    LET sid == Head(order)
        subnet == st.subnets[sid]
    IN  IF subnet.is_root
        THEN StepLoop_inject_first(Tail(order), st, emit, sum_prices, balanced_,
                                   root_weight_, global_split_)
        ELSE
        LET tao_amount == IF RLt(sum_prices, One) \/ ~balanced_
                          THEN RMul(Get(emit, sid), FromInt(emission_val)) ELSE Zero
            alpha_amount == IF ~RLt(sum_prices, One) /\ balanced_
                            THEN FromInt(emission_val) ELSE Zero
            subnet1 == inject(subnet, tao_amount, alpha_amount, FromInt(emission_val))
            subnets1 == [st.subnets EXCEPT ![sid] = subnet1]
            dividends == calculate_dividends(subnets1, st.accounts, root_weight_,
                                             global_split_, sid)
            accounts1 == Accrue(Ordered(DOMAIN dividends), st.accounts, sid, dividends)
            st1 == [subnets |-> subnets1,
                    accounts |-> accounts1,
                    injects |-> Append(st.injects,
                                  [id |-> sid, tao_amount |-> tao_amount,
                                   alpha_amount |-> alpha_amount,
                                   alpha_out |-> FromInt(emission_val),
                                   dividends |-> dividends,
                                   before |-> subnet])]
        IN  StepLoop_inject_first(Tail(order), st1, emit, sum_prices, balanced_,
                                  root_weight_, global_split_)

\* the loop with tao_amount of lines 152-153 not conditioned on sum_prices
\* and balanced: every step hands the emission shares to the pools
RECURSIVE StepLoop_tao_always(_, _, _, _, _, _, _)
StepLoop_tao_always(order, st, emit, sum_prices, balanced_, root_weight_, global_split_) ==
    IF order = <<>> THEN st
    ELSE
    LET sid == Head(order)
        subnet == st.subnets[sid]
    IN  IF subnet.is_root
        THEN StepLoop_tao_always(Tail(order), st, emit, sum_prices, balanced_, root_weight_, global_split_)
        ELSE
        LET tao_amount == RMul(Get(emit, sid), FromInt(emission_val))
            alpha_amount == IF ~RLt(sum_prices, One) /\ balanced_
                            THEN FromInt(emission_val) ELSE Zero
            dividends == calculate_dividends(st.subnets, st.accounts, root_weight_,
                                             global_split_, sid)
            accounts1 == Accrue(Ordered(DOMAIN dividends), st.accounts, sid, dividends)
            subnet1 == inject(subnet, tao_amount, alpha_amount, FromInt(emission_val))
            st1 == [subnets |-> [st.subnets EXCEPT ![sid] = subnet1],
                    accounts |-> accounts1,
                    injects |-> Append(st.injects,
                                  [id |-> sid, tao_amount |-> tao_amount,
                                   alpha_amount |-> alpha_amount,
                                   alpha_out |-> FromInt(emission_val),
                                   dividends |-> dividends,
                                   before |-> subnet])]
        IN  StepLoop_tao_always(Tail(order), st1, emit, sum_prices, balanced_, root_weight_, global_split_)

\* the loop without lines 149-150 (the "continue" for the root subnet)
RECURSIVE StepLoop_root_included(_, _, _, _, _, _, _)
StepLoop_root_included(order, st, emit, sum_prices, balanced_, root_weight_, global_split_) ==
    IF order = <<>> THEN st
    ELSE
    LET sid == Head(order)
        subnet == st.subnets[sid]
    IN
        LET tao_amount == IF RLt(sum_prices, One) \/ ~balanced_
                          THEN RMul(Get(emit, sid), FromInt(emission_val)) ELSE Zero
            alpha_amount == IF ~RLt(sum_prices, One) /\ balanced_
                            THEN FromInt(emission_val) ELSE Zero
            dividends == calculate_dividends(st.subnets, st.accounts, root_weight_,
                                             global_split_, sid)
            accounts1 == Accrue(Ordered(DOMAIN dividends), st.accounts, sid, dividends)
            subnet1 == inject(subnet, tao_amount, alpha_amount, FromInt(emission_val))
            st1 == [subnets |-> [st.subnets EXCEPT ![sid] = subnet1],
                    accounts |-> accounts1,
                    injects |-> Append(st.injects,
                                  [id |-> sid, tao_amount |-> tao_amount,
                                   alpha_amount |-> alpha_amount,
                                   alpha_out |-> FromInt(emission_val),
                                   dividends |-> dividends,
                                   before |-> subnet])]
        IN  StepLoop_root_included(Tail(order), st1, emit, sum_prices, balanced_, root_weight_, global_split_)

\* lines 148-163: the loop over self.subnets.values(); order is the list of
\* subnet ids still to visit, st carries the objects and a trace of the
\* inject calls made (id, arguments, the dividends used, the subnet as it
\* was when inject was called)
RECURSIVE StepLoop(_, _, _, _, _, _, _)
StepLoop(order, st, emit, sum_prices, balanced_, root_weight_, global_split_) ==
    IF order = <<>> THEN st
    ELSE
    LET sid == Head(order)
        subnet == st.subnets[sid]
    IN  IF subnet.is_root
        THEN StepLoop(Tail(order), st, emit, sum_prices, balanced_, root_weight_, global_split_)
        ELSE
        LET tao_amount == IF RLt(sum_prices, One) \/ ~balanced_
                          THEN RMul(Get(emit, sid), FromInt(emission_val)) ELSE Zero
            alpha_amount == IF ~RLt(sum_prices, One) /\ balanced_
                            THEN FromInt(emission_val) ELSE Zero
            dividends == calculate_dividends(st.subnets, st.accounts, root_weight_,
                                             global_split_, sid)
            accounts1 == Accrue(Ordered(DOMAIN dividends), st.accounts, sid, dividends)
            subnet1 == inject(subnet, tao_amount, alpha_amount, FromInt(emission_val))
            st1 == [subnets |-> [st.subnets EXCEPT ![sid] = subnet1],
                    accounts |-> accounts1,
                    injects |-> Append(st.injects,
                                  [id |-> sid, tao_amount |-> tao_amount,
                                   alpha_amount |-> alpha_amount,
                                   alpha_out |-> FromInt(emission_val),
                                   dividends |-> dividends,
                                   before |-> subnet])]
        IN  StepLoop(Tail(order), st1, emit, sum_prices, balanced_, root_weight_, global_split_)

\* _process_block_step with the supply test of line 145 reduced to
\* "sum_prices < 1.0"
process_block_step_parity_only(subnets_, accounts_, tao_supply_, balanced_, root_weight_, global_split_) ==
    LET emit == calculate_emission(subnets_)
        sum_prices == SumPrices(subnets_)
        supply == IF RLt(sum_prices, One)
                  THEN RAdd(tao_supply_, FromInt(emission_val)) ELSE tao_supply_
        st == StepLoop(Ordered(DOMAIN subnets_),
                       [subnets |-> subnets_, accounts |-> accounts_, injects |-> <<>>],
                       emit, sum_prices, balanced_, root_weight_, global_split_)
    IN  [subnets |-> st.subnets, accounts |-> st.accounts,
         tao_supply |-> supply, injects |-> st.injects,
         emit |-> emit, sum_prices |-> sum_prices]

\* _process_block_step as a function of the Subtensor's fields
process_block_step(subnets_, accounts_, tao_supply_, balanced_, root_weight_, global_split_) ==
    LET emit == calculate_emission(subnets_)
        sum_prices == SumPrices(subnets_)
        supply == IF RLt(sum_prices, One) \/ ~balanced_
                  THEN RAdd(tao_supply_, FromInt(emission_val)) ELSE tao_supply_
        st == StepLoop(Ordered(DOMAIN subnets_),
                       [subnets |-> subnets_, accounts |-> accounts_, injects |-> <<>>],
                       emit, sum_prices, balanced_, root_weight_, global_split_)
    IN  [subnets |-> st.subnets, accounts |-> st.accounts,
         tao_supply |-> supply, injects |-> st.injects,
         emit |-> emit, sum_prices |-> sum_prices]

\* _execute_transaction looking the ids up with [] instead of .get(): an
\* unknown id raises KeyError
execute_transaction_unknown_raises(subnets_, accounts_, tx) ==
    LET same == [raised |-> FALSE, subnets |-> subnets_, accounts |-> accounts_]
        fail == [raised |-> TRUE, subnets |-> subnets_, accounts |-> accounts_]
    IN
    IF tx.account_id \notin DOMAIN accounts_ \/ tx.subnet_id \notin DOMAIN subnets_
    THEN fail
    ELSE
    LET account == accounts_[tx.account_id]
        subnet == subnets_[tx.subnet_id]
    IN  IF tx.action = "stake"
        THEN LET p == parse_amount(tx.amount, account.free_balance) IN
             IF p.raised THEN fail
             ELSE LET r == stake(subnet, p.val) IN
                  IF r.raised THEN fail
                  ELSE [raised |-> FALSE,
                        subnets |-> [subnets_ EXCEPT ![tx.subnet_id] = r.subnet],
                        accounts |-> [accounts_ EXCEPT ![tx.account_id] =
                            [account EXCEPT
                                !.alpha_stakes = Put(@, tx.subnet_id,
                                                     RAdd(Get(@, tx.subnet_id), r.ret)),
                                !.free_balance = RSub(@, p.val)]]]
        ELSE IF tx.action = "unstake"
        THEN LET p == parse_amount(tx.amount, Get(account.alpha_stakes, tx.subnet_id)) IN
             IF p.raised THEN fail
             ELSE LET r == unstake(subnet, p.val) IN
                  IF r.raised THEN fail
                  ELSE [raised |-> FALSE,
                        subnets |-> [subnets_ EXCEPT ![tx.subnet_id] = r.subnet],
                        accounts |-> [accounts_ EXCEPT ![tx.account_id] =
                            [account EXCEPT
                                !.alpha_stakes = Put(@, tx.subnet_id,
                                                     RSub(Get(@, tx.subnet_id), p.val)),
                                !.free_balance = RAdd(@, r.ret)]]]
        ELSE same

\* _execute_transaction as if line 189 also took the action 'buy' of the
\* docstring and of the template
execute_transaction_buy_is_stake(subnets_, accounts_, tx) ==
    LET same == [raised |-> FALSE, subnets |-> subnets_, accounts |-> accounts_]
        fail == [raised |-> TRUE, subnets |-> subnets_, accounts |-> accounts_]
    IN
    IF tx.account_id \notin DOMAIN accounts_ \/ tx.subnet_id \notin DOMAIN subnets_
    THEN same
    ELSE
    LET account == accounts_[tx.account_id]
        subnet == subnets_[tx.subnet_id]
    IN  IF tx.action \in {"stake", "buy"}
        THEN LET p == parse_amount(tx.amount, account.free_balance) IN
             IF p.raised THEN fail
             ELSE LET r == stake(subnet, p.val) IN
                  IF r.raised THEN fail
                  ELSE [raised |-> FALSE,
                        subnets |-> [subnets_ EXCEPT ![tx.subnet_id] = r.subnet],
                        accounts |-> [accounts_ EXCEPT ![tx.account_id] =
                            [account EXCEPT
                                !.alpha_stakes = Put(@, tx.subnet_id,
                                                     RAdd(Get(@, tx.subnet_id), r.ret)),
                                !.free_balance = RSub(@, p.val)]]]
        ELSE IF tx.action = "unstake"
        THEN LET p == parse_amount(tx.amount, Get(account.alpha_stakes, tx.subnet_id)) IN
             IF p.raised THEN fail
             ELSE LET r == unstake(subnet, p.val) IN
                  IF r.raised THEN fail
                  ELSE [raised |-> FALSE,
                        subnets |-> [subnets_ EXCEPT ![tx.subnet_id] = r.subnet],
                        accounts |-> [accounts_ EXCEPT ![tx.account_id] =
                            [account EXCEPT
                                !.alpha_stakes = Put(@, tx.subnet_id,
                                                     RSub(Get(@, tx.subnet_id), p.val)),
                                !.free_balance = RAdd(@, r.ret)]]]
        ELSE same

\* _execute_transaction; raised is TRUE when an exception leaves the method,
\* which happens before its first assignment to an account
execute_transaction(subnets_, accounts_, tx) ==
    LET same == [raised |-> FALSE, subnets |-> subnets_, accounts |-> accounts_]
        fail == [raised |-> TRUE, subnets |-> subnets_, accounts |-> accounts_]
    IN
    IF tx.account_id \notin DOMAIN accounts_ \/ tx.subnet_id \notin DOMAIN subnets_
    THEN same
    ELSE
    LET account == accounts_[tx.account_id]
        subnet == subnets_[tx.subnet_id]
    IN  IF tx.action = "stake"
        THEN LET p == parse_amount(tx.amount, account.free_balance) IN
             IF p.raised THEN fail
             ELSE LET r == stake(subnet, p.val) IN
                  IF r.raised THEN fail
                  ELSE [raised |-> FALSE,
                        subnets |-> [subnets_ EXCEPT ![tx.subnet_id] = r.subnet],
                        accounts |-> [accounts_ EXCEPT ![tx.account_id] =
                            [account EXCEPT
                                !.alpha_stakes = Put(@, tx.subnet_id,
                                                     RAdd(Get(@, tx.subnet_id), r.ret)),
                                !.free_balance = RSub(@, p.val)]]]
        ELSE IF tx.action = "unstake"
        THEN LET p == parse_amount(tx.amount, Get(account.alpha_stakes, tx.subnet_id)) IN
             IF p.raised THEN fail
             ELSE LET r == unstake(subnet, p.val) IN
                  IF r.raised THEN fail
                  ELSE [raised |-> FALSE,
                        subnets |-> [subnets_ EXCEPT ![tx.subnet_id] = r.subnet],
                        accounts |-> [accounts_ EXCEPT ![tx.account_id] =
                            [account EXCEPT
                                !.alpha_stakes = Put(@, tx.subnet_id,
                                                     RSub(Get(@, tx.subnet_id), p.val)),
                                !.free_balance = RAdd(@, r.ret)]]]
        ELSE same

\* _organize_transactions: group by block, keeping list order in each group
SelectBlock(transactions, b) == SelectSeq(transactions, LAMBDA t : t.block = b)

\* line 50 with insert(0, transaction) in place of append: each group in
\* reverse list order
organize_transactions_prepend(transactions) ==
    [b \in {transactions[i].block : i \in 1..Len(transactions)} |->
        LET q == SelectBlock(transactions, b)
        IN  [i \in 1..Len(q) |-> q[Len(q) + 1 - i]]]

organize_transactions(transactions) ==
    [b \in {transactions[i].block : i \in 1..Len(transactions)} |->
        SelectBlock(transactions, b)]

\* lines 36-44 as if every positive stake were counted at face value, as
\* line 39 counts the root stake
calculate_market_value_ledger(account, subnets_) ==
    LET held == {sid \in DOMAIN subnets_ : RLt(Zero, Get(account.alpha_stakes, sid))}
    IN  [raised |-> FALSE,
         val |-> RAdd(account.free_balance,
                   RSum([sid \in held |-> Get(account.alpha_stakes, sid)], held))]

\* Account.calculate_market_value; raises ZeroDivisionError when a positive
\* stake meets alpha_in == -stake
calculate_market_value(account, subnets_) ==
    LET held == {sid \in DOMAIN subnets_ : RLt(Zero, Get(account.alpha_stakes, sid))}
        bad == {sid \in held : ~subnets_[sid].is_root /\
                   RAdd(subnets_[sid].alpha_in, Get(account.alpha_stakes, sid)) = Zero}
    IN  IF bad # {} THEN [raised |-> TRUE, val |-> Zero]
        ELSE [raised |-> FALSE,
              val |-> RAdd(account.free_balance,
                        RSum([sid \in held |->
                                IF subnets_[sid].is_root
                                THEN Get(account.alpha_stakes, sid)
                                ELSE RSub(subnets_[sid].tao_in,
                                          RDiv(subnets_[sid].k,
                                               RAdd(subnets_[sid].alpha_in,
                                                    Get(account.alpha_stakes, sid))))],
                             held))]

\* Subtensor.get_state with Account.get_state and Subnet.get_state
get_state(subnets_, accounts_, tao_supply_, root_weight_, global_split_, block_) ==
    LET emissions == calculate_emission(subnets_)
        mv == Dict([acc \in DOMAIN accounts_ |->
                      calculate_market_value(accounts_[acc], subnets_)])
    IN  IF \E acc \in DOMAIN accounts_ : mv[acc].raised
        THEN [raised |-> TRUE, state |-> <<>>]
        ELSE [raised |-> FALSE,
              state |->
               [block |-> block_,
                accounts |-> [acc \in DOMAIN accounts_ |->
                    [account_id |-> accounts_[acc].id,
                     free_balance |-> accounts_[acc].free_balance,
                     market_value |-> mv[acc].val,
                     alpha_stakes |-> accounts_[acc].alpha_stakes]],
                subnets |-> [sid \in DOMAIN subnets_ |->
                    [subnet_id |-> subnets_[sid].id,
                     tao_in |-> subnets_[sid].tao_in,
                     alpha_in |-> subnets_[sid].alpha_in,
                     alpha_out |-> subnets_[sid].alpha_out,
                     k |-> subnets_[sid].k,
                     exchange_rate |-> alpha_price(subnets_[sid]),
                     emission_rate |-> Get(emissions, sid),
                     dividends |-> IF subnets_[sid].is_root THEN EmptyDict
                                   ELSE calculate_dividends(subnets_, accounts_,
                                            root_weight_, global_split_, sid)]],
                network |-> [tao_supply |-> tao_supply_,
                             sum_prices |-> SumPrices(subnets_)]]]

\* ------------------------------------------------------------------------
\* State
\* ------------------------------------------------------------------------

VARIABLES
    \* BaseSimulation.subtensor is a Subtensor (TRUE) or None (FALSE) once
    \* setup() has returned, and the transactions list setup() passed
    subtensor_set, transactions,
    \* Subtensor fields
    subnets, accounts, transaction_blocks, tao_supply, global_split, balanced,
    initial_root_weight, root_weight, blocks, log_interval,
    \* SimulationEngine.run_simulation: loop index, index of the next
    \* transaction of the block, position in the method
    block, txi, pc,
    \* Database rows written by the run: status, progress, stored states
    status, progress, stored,
    \* the last operation performed and what it observed (history)
    last,
    \* a single Subnet object driven directly, and the calls made on it
    pool, calls

netVars == <<subnets, accounts, tao_supply>>
cfgVars == <<subtensor_set, transactions, transaction_blocks, global_split,
             balanced, initial_root_weight, root_weight, blocks, log_interval>>
runVars == <<block, txi, pc, status, progress, stored, last>>
poolVars == <<pool, calls>>
vars == <<netVars, cfgVars, runVars, poolVars>>

\* ------------------------------------------------------------------------
\* Bounds and input sets
\* ------------------------------------------------------------------------

MaxBlocks == 2
MaxTx == 1
MaxCalls == 3
MaxMagnitude == 12

RootId == 0
SubnetIds == {0, 1, 2}
AccountIds == {1, 2}

\* initial (tao_in, alpha_in) of subnet 1 and of subnet 2: unfunded pools,
\* prices summing to less than 1.0, and prices summing to 1.0 or more
Reserves ==
    {<<<<0, 0>>, <<0, 0>>>>, <<<<0, 0>>, <<3, 1>>>>,
     <<<<1, 4>>, <<1, 4>>>>, <<<<1, 4>>, <<3, 1>>>>}

AmountAll == <<"a", "l", "l">>
AmountHalf == <<"5", "0", "%">>
AmountOne == <<"1">>
Amounts == {AmountAll, AmountHalf, AmountOne}

\* the transactions a schedule is drawn from
TxSpace ==
    [block : {1}, account_id : AccountIds, subnet_id : {0, 1},
     action : {"stake", "unstake"}, amount : Amounts]

RECURSIVE SeqsUpTo(_, _)
SeqsUpTo(S, n) ==
    IF n = 0 THEN {<<>>}
    ELSE LET shorter == SeqsUpTo(S, n - 1)
         IN  shorter \cup {Append(q, x) : q \in shorter, x \in S}

NoOp == [op |-> "none"]

\* TLC computes with 32-bit integers: a run is followed for as long as the
\* numerators and denominators of the Subtensor's numbers are within
\* MaxMagnitude at the start of a block step
Small(x) == Abs(x[1]) <= MaxMagnitude /\ x[2] <= MaxMagnitude

Representable ==
    /\ Small(tao_supply)
    /\ \A sid \in DOMAIN subnets :
          /\ Small(subnets[sid].tao_in) /\ Small(subnets[sid].alpha_in)
          /\ Small(subnets[sid].alpha_out) /\ Small(subnets[sid].k)
    /\ \A acc \in DOMAIN accounts :
          /\ Small(accounts[acc].free_balance)
          /\ \A sid \in DOMAIN accounts[acc].alpha_stakes :
                Small(accounts[acc].alpha_stakes[sid])

\* values of the single-pool variables while the engine runs
PoolIdle == pool = Subnet(1, One, One, Zero, FALSE) /\ calls = <<>>

\* ------------------------------------------------------------------------
\* The simulation run (core/engine.py run_simulation over a Subtensor built
\* as user_data/simulations/first_block.py builds it)
\* ------------------------------------------------------------------------

Init ==
    /\ \E r \in Reserves :
          subnets = [sid \in SubnetIds |->
             IF sid = RootId THEN Subnet(0, Zero, Zero, Zero, TRUE)
             ELSE Subnet(sid, FromInt(r[sid][1]), FromInt(r[sid][2]), Zero, FALSE)]
    /\ accounts = [acc \in AccountIds |->
          IF acc = 1 THEN Account(1, FromInt(2), {0, 1, 2}, EmptyDict)
          ELSE Account(2, FromInt(2), {1}, EmptyDict)]
    /\ subtensor_set = TRUE
    /\ transactions \in SeqsUpTo(TxSpace, MaxTx)
    /\ transaction_blocks = organize_transactions(transactions)
    /\ tao_supply = FromInt(4)
    /\ global_split \in {Zero, Half, One}
    /\ balanced \in BOOLEAN
    /\ initial_root_weight = Half
    /\ root_weight = initial_root_weight
    /\ blocks = MaxBlocks
    /\ \E n_steps \in {1} : log_interval = blocks \div n_steps
    /\ block = 0 /\ txi = 1 /\ pc = "start"
    /\ status = "created" /\ progress = 0 /\ stored = <<>>
    /\ last = NoOp
    /\ PoolIdle

\* run_simulation without the validate_setup() call of line 73
StartRun_unvalidated ==
    /\ pc = "start"
    /\ block' = 0 /\ txi' = 1
    /\ status' = "running"
    /\ pc' = IF blocks > 0 THEN "actions" ELSE "finish"
    /\ last' = [op |-> "start"]
    /\ UNCHANGED <<netVars, cfgVars, progress, stored, poolVars>>

\* run_simulation lines 72-84: validate_setup raises when the simulation has
\* no Subtensor (handler of lines 91-93); otherwise status 'running', then
\* the loop is entered
StartRun ==
    /\ pc = "start"
    /\ block' = 0 /\ txi' = 1
    /\ IF subtensor_set
       THEN /\ status' = "running"
            /\ pc' = IF blocks > 0 THEN "actions" ELSE "finish"
       ELSE /\ status' = "failed"
            /\ pc' = "failed"
    /\ last' = [op |-> "start"]
    /\ UNCHANGED <<netVars, cfgVars, progress, stored, poolVars>>

\* the loop of lines 46-47 as if it ran over transaction_blocks[block][:1]
Pending_first_only ==
    IF block \in DOMAIN transaction_blocks THEN txi <= 1 ELSE FALSE

Pending ==
    IF block \in DOMAIN transaction_blocks
    THEN txi <= Len(transaction_blocks[block]) ELSE FALSE

\* _process_block lines 45-47, one transaction; an exception ends the run
\* in the handler of run_simulation (lines 91-93)
ExecuteTransaction ==
    /\ pc = "actions" /\ Pending
    /\ last' = [op |-> "tx", block |-> block,
                tx |-> transaction_blocks[block][txi],
                start |-> IF txi = 1
                          THEN [subnets |-> subnets, accounts |-> accounts]
                          ELSE last.start,
                before |-> [subnets |-> subnets, accounts |-> accounts],
                res |-> execute_transaction(subnets, accounts,
                                            transaction_blocks[block][txi])]
    /\ subnets' = last'.res.subnets
    /\ accounts' = last'.res.accounts
    /\ IF last'.res.raised
       THEN pc' = "failed" /\ status' = "failed" /\ txi' = txi
       ELSE pc' = pc /\ status' = status /\ txi' = txi + 1
    /\ UNCHANGED <<tao_supply, cfgVars, block, progress, stored, poolVars>>

\* _process_block with lines 49-50 placed before the loop of lines 45-47: the
\* step does not wait for the transactions of the block
ProcessBlockStep_before_transactions ==
    /\ pc = "actions" /\ block # 0
    /\ Representable
    /\ last' = [op |-> "step", block |-> block,
                before |-> [subnets |-> subnets, accounts |-> accounts,
                            tao_supply |-> tao_supply, root_weight |-> root_weight],
                res |-> process_block_step(subnets, accounts, tao_supply, balanced,
                                           root_weight, global_split)]
    /\ subnets' = last'.res.subnets
    /\ accounts' = last'.res.accounts
    /\ tao_supply' = last'.res.tao_supply
    /\ pc' = "log"
    /\ UNCHANGED <<cfgVars, block, txi, status, progress, stored, poolVars>>

\* _process_block lines 49-50
ProcessBlockStep ==
    /\ pc = "actions" /\ ~Pending /\ block # 0
    /\ Representable
    /\ last' = [op |-> "step", block |-> block,
                before |-> [subnets |-> subnets, accounts |-> accounts,
                            tao_supply |-> tao_supply, root_weight |-> root_weight],
                res |-> process_block_step(subnets, accounts, tao_supply, balanced,
                                           root_weight, global_split)]
    /\ subnets' = last'.res.subnets
    /\ accounts' = last'.res.accounts
    /\ tao_supply' = last'.res.tao_supply
    /\ pc' = "log"
    /\ UNCHANGED <<cfgVars, block, txi, status, progress, stored, poolVars>>

\* Database.update_simulation_progress: the row keeps current_block + 1
update_simulation_progress(current_block) == current_block + 1

\* _update_progress (lines 37-40)
ProgressDue == block = 0 \/ block = blocks - 1 \/ block % log_interval = 0

\* line 54 without "or block == subtensor.blocks - 1"
SnapshotDue_interval_only == block % log_interval = 0

\* the condition of line 54
SnapshotDue == block % log_interval = 0 \/ block = blocks - 1

\* lines 54-62 as if calculate_market_value read the stakes with
\* alpha_stakes.setdefault(subnet.id, 0.0) instead of .get
LogBlock_setdefault ==
    /\ \/ pc = "log"
       \/ pc = "actions" /\ ~Pending /\ block = 0
    /\ last' = [op |-> "log", block |-> block,
                g |-> IF log_interval # 0 /\ SnapshotDue
                      THEN get_state(subnets, accounts, tao_supply, root_weight,
                                     global_split, block)
                      ELSE [raised |-> log_interval = 0, state |-> <<>>]]
    /\ progress' = IF log_interval = 0
                   THEN (IF block = 0 \/ block = blocks - 1
                         THEN update_simulation_progress(block) ELSE progress)
                   ELSE (IF ProgressDue
                         THEN update_simulation_progress(block) ELSE progress)
    /\ stored' = IF log_interval # 0 /\ SnapshotDue /\ ~last'.g.raised
                 THEN Append(stored, last'.g.state) ELSE stored
    /\ IF last'.g.raised
       THEN pc' = "failed" /\ status' = "failed" /\ block' = block /\ txi' = txi
       ELSE /\ block' = block + 1 /\ txi' = 1 /\ status' = status
            /\ pc' = IF block + 1 < blocks THEN "actions" ELSE "finish"
    /\ accounts' = IF log_interval # 0 /\ SnapshotDue
                   THEN [acc \in DOMAIN accounts |->
                           [accounts[acc] EXCEPT !.alpha_stakes =
                              [sid \in DOMAIN subnets |->
                                 Get(accounts[acc].alpha_stakes, sid)]]]
                   ELSE accounts
    /\ UNCHANGED <<subnets, tao_supply, cfgVars, poolVars>>

\* lines 52-62 inside a try whose except clause passes: an exception of
\* the snapshot is dropped and the loop of run_simulation goes on
LogBlock_exception_swallowed ==
    /\ \/ pc = "log"
       \/ pc = "actions" /\ ~Pending /\ block = 0
    /\ last' = [op |-> "log", block |-> block,
                g |-> IF log_interval # 0 /\ SnapshotDue
                      THEN get_state(subnets, accounts, tao_supply, root_weight,
                                     global_split, block)
                      ELSE [raised |-> log_interval = 0, state |-> <<>>]]
    /\ progress' = IF log_interval = 0
                   THEN (IF block = 0 \/ block = blocks - 1
                         THEN update_simulation_progress(block) ELSE progress)
                   ELSE (IF ProgressDue
                         THEN update_simulation_progress(block) ELSE progress)
    /\ stored' = IF log_interval # 0 /\ SnapshotDue /\ ~last'.g.raised
                 THEN Append(stored, last'.g.state) ELSE stored
    /\ block' = block + 1 /\ txi' = 1 /\ status' = status
    /\ pc' = IF block + 1 < blocks THEN "actions" ELSE "finish"
    /\ UNCHANGED <<netVars, cfgVars, poolVars>>

\* _process_block lines 52-62 and the loop increment: _update_progress, then
\* the snapshot when due.  With log_interval == 0, block % log_interval
\* raises ZeroDivisionError: in line 39 unless an earlier disjunct is true,
\* and always in line 54.
LogBlock ==
    /\ \/ pc = "log"
       \/ pc = "actions" /\ ~Pending /\ block = 0
    /\ last' = [op |-> "log", block |-> block,
                g |-> IF log_interval # 0 /\ SnapshotDue
                      THEN get_state(subnets, accounts, tao_supply, root_weight,
                                     global_split, block)
                      ELSE [raised |-> log_interval = 0, state |-> <<>>]]
    /\ progress' = IF log_interval = 0
                   THEN (IF block = 0 \/ block = blocks - 1
                         THEN update_simulation_progress(block) ELSE progress)
                   ELSE (IF ProgressDue
                         THEN update_simulation_progress(block) ELSE progress)
    /\ stored' = IF log_interval # 0 /\ SnapshotDue /\ ~last'.g.raised
                 THEN Append(stored, last'.g.state) ELSE stored
    /\ IF last'.g.raised
       THEN pc' = "failed" /\ status' = "failed" /\ block' = block /\ txi' = txi
       ELSE /\ block' = block + 1 /\ txi' = 1 /\ status' = status
            /\ pc' = IF block + 1 < blocks THEN "actions" ELSE "finish"
    /\ UNCHANGED <<netVars, cfgVars, poolVars>>

\* run_simulation lines 87-89
Complete ==
    /\ pc = "finish"
    /\ progress' = update_simulation_progress(blocks - 1)
    /\ status' = "completed"
    /\ pc' = "completed"
    /\ last' = [op |-> "complete"]
    /\ UNCHANGED <<netVars, cfgVars, block, txi, stored, poolVars>>

Next == StartRun \/ ExecuteTransaction \/ ProcessBlockStep \/ LogBlock \/ Complete

Spec == Init /\ [][Next]_vars

\* ------------------------------------------------------------------------
\* Runs over schedules: several transactions per block, listed in any block
\* order, some naming a participant or a subnet that does not exist
\* ------------------------------------------------------------------------

MaxSched == 2

\* transactions of participant 1 on subnet 1, and transactions naming the
\* unknown participant 3 or the unknown subnet 9
TxSched ==
    [block : {0, 1}, account_id : {1}, subnet_id : {1},
     action : {"stake", "unstake"}, amount : {AmountAll, AmountOne}]
    \cup
    {[block |-> b, account_id |-> ids[1], subnet_id |-> ids[2],
      action |-> "stake", amount |-> AmountOne] :
        b \in {0, 1}, ids \in {<<3, 1>>, <<1, 9>>}}

SchedInit ==
    /\ \E r1 \in {<<0, 0>>, <<1, 4>>} :
          subnets = [sid \in SubnetIds |->
             IF sid = RootId THEN Subnet(0, Zero, Zero, Zero, TRUE)
             ELSE IF sid = 1 THEN Subnet(1, FromInt(r1[1]), FromInt(r1[2]), Zero, FALSE)
             ELSE Subnet(2, FromInt(3), One, Zero, FALSE)]
    /\ accounts = [acc \in AccountIds |->
          IF acc = 1 THEN Account(1, FromInt(2), {0, 1, 2}, EmptyDict)
          ELSE Account(2, FromInt(2), {1}, EmptyDict)]
    /\ subtensor_set = TRUE
    /\ transactions \in SeqsUpTo(TxSched, MaxSched)
    /\ transaction_blocks = organize_transactions(transactions)
    /\ tao_supply = FromInt(4)
    /\ global_split = Half
    /\ balanced = TRUE
    /\ initial_root_weight = Half
    /\ root_weight = initial_root_weight
    /\ blocks = MaxBlocks
    /\ \E n_steps \in {1} : log_interval = blocks \div n_steps
    /\ block = 0 /\ txi = 1 /\ pc = "start"
    /\ status = "created" /\ progress = 0 /\ stored = <<>>
    /\ last = NoOp
    /\ PoolIdle

SpecSched == SchedInit /\ [][Next]_vars

\* ------------------------------------------------------------------------
\* Schedules of up to MaxOrder transactions of one participant whose blocks
\* appear in any order in the list
\* ------------------------------------------------------------------------

MaxOrder == 3

TxOrder ==
    {[block |-> b, account_id |-> 1, subnet_id |-> 1,
      action |-> act[1], amount |-> act[2]] :
        b \in {0, 1},
        act \in {<<"stake", AmountOne>>, <<"stake", AmountAll>>,
                 <<"unstake", AmountAll>>}}

OrderInit ==
    /\ subnets = [sid \in SubnetIds |->
          IF sid = RootId THEN Subnet(0, Zero, Zero, Zero, TRUE)
          ELSE IF sid = 1 THEN Subnet(1, One, FromInt(4), Zero, FALSE)
          ELSE Subnet(2, FromInt(3), One, Zero, FALSE)]
    /\ accounts = [acc \in AccountIds |->
          IF acc = 1 THEN Account(1, FromInt(2), {0, 1, 2}, EmptyDict)
          ELSE Account(2, FromInt(2), {1}, EmptyDict)]
    /\ subtensor_set = TRUE
    /\ transactions \in SeqsUpTo(TxOrder, MaxOrder)
    /\ transaction_blocks = organize_transactions(transactions)
    /\ tao_supply = FromInt(4)
    /\ global_split = Half
    /\ balanced = TRUE
    /\ initial_root_weight = Half
    /\ root_weight = initial_root_weight
    /\ blocks = MaxBlocks
    /\ \E n_steps \in {1} : log_interval = blocks \div n_steps
    /\ block = 0 /\ txi = 1 /\ pc = "start"
    /\ status = "created" /\ progress = 0 /\ stored = <<>>
    /\ last = NoOp
    /\ PoolIdle

SpecOrder == OrderInit /\ [][Next]_vars

\* ------------------------------------------------------------------------
\* Schedules of participant 1 at block 0 over every form of amount ('all',
\* a percentage, a plain number), on the root pool and on pool 1, with the
\* action kind 'buy' of the generated template among them
\* ------------------------------------------------------------------------

MaxAmt == 2

TxAmt ==
    [block : {0}, account_id : {1}, subnet_id : {0, 1},
     action : {"stake", "unstake"}, amount : Amounts]
    \cup
    {[block |-> 0, account_id |-> 1, subnet_id |-> 1,
      action |-> "buy", amount |-> AmountOne]}

AmtInit ==
    /\ subnets = [sid \in SubnetIds |->
          IF sid = RootId THEN Subnet(0, Zero, Zero, Zero, TRUE)
          ELSE IF sid = 1 THEN Subnet(1, One, FromInt(4), Zero, FALSE)
          ELSE Subnet(2, FromInt(3), One, Zero, FALSE)]
    /\ accounts = [acc \in AccountIds |->
          IF acc = 1 THEN Account(1, FromInt(2), {0, 1, 2}, EmptyDict)
          ELSE Account(2, FromInt(2), {1}, EmptyDict)]
    /\ subtensor_set = TRUE
    /\ transactions \in SeqsUpTo(TxAmt, MaxAmt)
    /\ transaction_blocks = organize_transactions(transactions)
    /\ tao_supply = FromInt(4)
    /\ global_split = Half
    /\ balanced = TRUE
    /\ initial_root_weight = Half
    /\ root_weight = initial_root_weight
    /\ blocks = MaxBlocks
    /\ \E n_steps \in {1} : log_interval = blocks \div n_steps
    /\ block = 0 /\ txi = 1 /\ pc = "start"
    /\ status = "created" /\ progress = 0 /\ stored = <<>>
    /\ last = NoOp
    /\ PoolIdle

SpecAmt == AmtInit /\ [][Next]_vars

\* ------------------------------------------------------------------------
\* user_data/simulations/first_block.py: its two pools, two participants
\* and two transactions at block 1, run for MaxBlocks blocks with
\* n_steps == blocks.  The balances, the amount, global_split and balanced
\* also take neighbouring values; the scenario itself is FirstBlock.
\* ------------------------------------------------------------------------

Amount100 == <<"1", "0", "0">>

FirstSubnets ==
    (0 :> Subnet(0, Zero, Zero, Zero, TRUE)) @@
    (1 :> Subnet(1, One, One, Zero, FALSE))

FirstAccounts(balance) ==
    (1 :> Account(1, balance, {0, 1}, EmptyDict)) @@
    (2 :> Account(2, balance, {1}, EmptyDict))

FirstTransactions(amount) ==
    <<[block |-> 1, account_id |-> 1, subnet_id |-> 0,
       action |-> "stake", amount |-> amount],
      [block |-> 1, account_id |-> 2, subnet_id |-> 1,
       action |-> "stake", amount |-> amount]>>

FirstInit ==
    /\ subnets = FirstSubnets
    /\ \E balance \in {FromInt(100), FromInt(2), FromInt(3)} :
          /\ accounts = FirstAccounts(balance)
          /\ tao_supply = RAdd(balance, balance)
    /\ subtensor_set = TRUE
    /\ \E amount \in {Amount100, AmountOne, AmountAll} :
          transactions = FirstTransactions(amount)
    /\ transaction_blocks = organize_transactions(transactions)
    /\ global_split \in {One, Half}
    /\ balanced \in BOOLEAN
    /\ initial_root_weight = Half
    /\ root_weight = initial_root_weight
    /\ blocks = MaxBlocks
    /\ \E n_steps \in {blocks} : log_interval = blocks \div n_steps
    /\ block = 0 /\ txi = 1 /\ pc = "start"
    /\ status = "created" /\ progress = 0 /\ stored = <<>>
    /\ last = NoOp
    /\ PoolIdle

SpecFirst == FirstInit /\ [][Next]_vars

\* ------------------------------------------------------------------------
\* Runs that start with stakes already held: alpha_stakes given to the
\* Account constructors and alpha_out given to the Subnet constructors,
\* with alpha_out at least the stakes held in the pool
\* ------------------------------------------------------------------------

\* alpha_stakes of participant 1 and of participant 2
StakeSetups ==
    {<<EmptyDict, EmptyDict>>,
     <<(0 :> One), (1 :> One)>>,
     <<(1 :> One) @@ (2 :> One), (1 :> One)>>,
     <<(2 :> One), (1 :> FromInt(2))>>}

\* the stakes held in pool sid under a setup
StakedIn(setup, sid) == RAdd(Get(setup[1], sid), Get(setup[2], sid))

\* alpha_out beyond the stakes held by the participants
Unheld == {Zero, One}

TxStaked ==
    {[block |-> 1, account_id |-> 2, subnet_id |-> 1,
      action |-> "unstake", amount |-> AmountAll],
     [block |-> 0, account_id |-> 1, subnet_id |-> 2,
      action |-> "stake", amount |-> AmountOne],
     [block |-> 1, account_id |-> 1, subnet_id |-> 1,
      action |-> "unstake", amount |-> AmountHalf]}

StepInit ==
    /\ \E r \in Reserves, setup \in StakeSetups, u \in Unheld :
          /\ subnets = [sid \in SubnetIds |->
                IF sid = RootId
                THEN Subnet(0, Zero, Zero, StakedIn(setup, 0), TRUE)
                ELSE Subnet(sid, FromInt(r[sid][1]), FromInt(r[sid][2]),
                            RAdd(StakedIn(setup, sid), u), FALSE)]
          /\ accounts = [acc \in AccountIds |->
                IF acc = 1 THEN Account(1, FromInt(2), {0, 1, 2}, setup[1])
                ELSE Account(2, FromInt(2), {1}, setup[2])]
    /\ subtensor_set = TRUE
    /\ transactions \in SeqsUpTo(TxStaked, 1)
    /\ transaction_blocks = organize_transactions(transactions)
    /\ tao_supply = FromInt(4)
    /\ global_split \in {Zero, Half, One}
    /\ balanced \in BOOLEAN
    /\ initial_root_weight = Half
    /\ root_weight = initial_root_weight
    /\ blocks = MaxBlocks
    /\ \E n_steps \in {1} : log_interval = blocks \div n_steps
    /\ block = 0 /\ txi = 1 /\ pc = "start"
    /\ status = "created" /\ progress = 0 /\ stored = <<>>
    /\ last = NoOp
    /\ PoolIdle

SpecStep == StepInit /\ [][Next]_vars

\* ------------------------------------------------------------------------
\* Runs of several blocks with several log intervals, over a simulation
\* whose setup() built a Subtensor or left self.subtensor None
\* ------------------------------------------------------------------------

MaxRunBlocks == 4

\* int(a / b) for b # 0: the quotient truncated toward zero
TruncDiv(a, b) ==
    IF (a < 0) = (b < 0) THEN Abs(a) \div Abs(b) ELSE 0 - (Abs(a) \div Abs(b))

\* participant 1 stakes 1 tao into the root subnet at block 0, 1 or 2
EngineTx ==
    [block : {0, 1, 2}, account_id : {1}, subnet_id : {RootId},
     action : {"stake"}, amount : {AmountOne}]

EngineInit ==
    /\ subtensor_set \in BOOLEAN
    /\ subnets = [sid \in SubnetIds |->
          IF sid = RootId THEN Subnet(0, Zero, Zero, Zero, TRUE)
          ELSE Subnet(sid, One, One, Zero, FALSE)]
    /\ accounts = [acc \in AccountIds |->
          IF acc = 1 THEN Account(1, FromInt(2), {0, 1, 2}, EmptyDict)
          ELSE Account(2, FromInt(2), {1}, EmptyDict)]
    /\ transactions \in SeqsUpTo(EngineTx, 2)
    /\ transaction_blocks = organize_transactions(transactions)
    /\ tao_supply = FromInt(4)
    /\ global_split = One
    /\ balanced = TRUE
    /\ initial_root_weight = Half
    /\ root_weight = initial_root_weight
    /\ blocks \in 0..MaxRunBlocks
    /\ \E n_steps \in {1, 2, 3} : log_interval = TruncDiv(blocks, n_steps)
    /\ block = 0 /\ txi = 1 /\ pc = "start"
    /\ status = "created" /\ progress = 0 /\ stored = <<>>
    /\ last = NoOp
    /\ PoolIdle

SpecEngine == EngineInit /\ [][Next]_vars

\* ------------------------------------------------------------------------
\* A single Subnet object called directly (the pool contract of subnet.py):
\* any interleaving of stake, unstake and inject calls, at most MaxCalls
\* ------------------------------------------------------------------------

\* values of the engine variables while a single pool is driven
EngineIdle ==
    /\ subtensor_set = FALSE /\ transactions = <<>>
    /\ subnets = <<>> /\ accounts = <<>> /\ transaction_blocks = <<>>
    /\ tao_supply = Zero /\ global_split = Zero /\ balanced = FALSE
    /\ initial_root_weight = Zero /\ root_weight = Zero
    /\ blocks = 0 /\ log_interval = 0
    /\ block = 0 /\ txi = 1 /\ pc = "idle"
    /\ status = "created" /\ progress = 0 /\ stored = <<>>
    /\ last = NoOp

\* initial tao_in and alpha_in of the pool
PoolReserves == {Zero, One, FromInt(2)}

\* arguments of the calls
CallAmounts == {FromInt(-1), Zero, Half, FromInt(2)}

PoolInit ==
    /\ \E t \in PoolReserves, a \in PoolReserves, root \in BOOLEAN :
          pool = Subnet(1, t, a, Zero, root)
    /\ calls = <<>>
    /\ EngineIdle

Call(op, arg, r) ==
    [op |-> op, arg |-> arg, ret |-> r.ret, raised |-> r.raised,
     before |-> pool, after |-> r.subnet]

StakeCall ==
    /\ Len(calls) < MaxCalls
    /\ \E x \in CallAmounts :
          /\ calls' = Append(calls, Call("stake", x, stake(pool, x)))
          /\ pool' = calls'[Len(calls')].after
    /\ UNCHANGED <<netVars, cfgVars, runVars>>

\* the amount is free, or the value the preceding call returned
UnstakeCall ==
    /\ Len(calls) < MaxCalls
    /\ \E a \in CallAmounts \cup
                (IF calls # <<>> THEN {calls[Len(calls)].ret} ELSE {}) :
          /\ calls' = Append(calls, Call("unstake", a, unstake(pool, a)))
          /\ pool' = calls'[Len(calls')].after
    /\ UNCHANGED <<netVars, cfgVars, runVars>>

\* inject as _process_block_step calls it: tao or alpha, alpha_out 1
InjectCall ==
    /\ Len(calls) < MaxCalls
    /\ \E t \in {Zero, Half} :
          LET a == IF t = Zero THEN One ELSE Zero IN
          /\ calls' = Append(calls,
                [op |-> "inject", arg |-> t, ret |-> Zero, raised |-> FALSE,
                 before |-> pool, after |-> inject(pool, t, a, One)])
          /\ pool' = calls'[Len(calls')].after
    /\ UNCHANGED <<netVars, cfgVars, runVars>>

PoolNext == StakeCall \/ UnstakeCall \/ InjectCall

SpecPool == PoolInit /\ [][PoolNext]_vars

\* ------------------------------------------------------------------------
\* The Subtensor constructor called directly (models/subtensor.py __init__)
\* ------------------------------------------------------------------------

MaxArg == 5

\* values of blocks and n_steps
CtorArgs == (0 - MaxArg)..MaxArg

\* lines 34-35: the only statements of __init__ that look at blocks and
\* n_steps; blocks / n_steps raises ZeroDivisionError when n_steps == 0
subtensor_init(blocks_, n_steps_) ==
    IF n_steps_ = 0 THEN [raised |-> TRUE, blocks |-> 0, log_interval |-> 0]
    ELSE [raised |-> FALSE, blocks |-> blocks_,
          log_interval |-> TruncDiv(blocks_, n_steps_)]

CtorInit == EngineIdle /\ PoolIdle

ConstructCall ==
    /\ pc = "idle" /\ calls = <<>>
    /\ \E b \in CtorArgs, n \in CtorArgs :
          calls' = <<[op |-> "init", blocks |-> b, n_steps |-> n,
                      res |-> subtensor_init(b, n)]>>
    /\ subtensor_set' = ~calls'[1].res.raised
    /\ blocks' = calls'[1].res.blocks
    /\ log_interval' = calls'[1].res.log_interval
    /\ UNCHANGED <<netVars, runVars, pool, transactions, transaction_blocks,
                   global_split, balanced, initial_root_weight, root_weight>>

SpecCtor == CtorInit /\ [][ConstructCall]_vars

\* ------------------------------------------------------------------------
\* Properties of the pool contract (checked under SpecPool)
\* ------------------------------------------------------------------------

\* the pool as it was constructed
pool0 == IF calls = <<>> THEN pool ELSE calls[1].before

PositiveReserves(s) == RLt(Zero, s.tao_in) /\ RLt(Zero, s.alpha_in)

NoInject == \A i \in 1..Len(calls) : calls[i].op # "inject"

NonNegativeArgs == \A i \in 1..Len(calls) : ~RLt(calls[i].arg, Zero)

\* C1: a non-root pool created with positive reserves keeps
\* tao_in * alpha_in == k, with k the value it was constructed with, after
\* any sequence of stake(x) and unstake(a) calls with x, a >= 0 and no inject
C1_ProductStaysK ==
    (~pool.is_root /\ PositiveReserves(pool0) /\ NoInject /\ NonNegativeArgs)
        => /\ RMul(pool.tao_in, pool.alpha_in) = pool.k
           /\ pool.k = pool0.k

\* a stake and an unstake of positive amounts have both moved the reserves
C1_Witness ==
    /\ ~pool.is_root /\ PositiveReserves(pool0) /\ NoInject /\ NonNegativeArgs
    /\ \E i, j \in 1..Len(calls) :
          /\ calls[i].op = "stake" /\ RLt(Zero, calls[i].arg)
          /\ calls[j].op = "unstake" /\ RLt(Zero, calls[j].arg)
    /\ pool.tao_in # pool0.tao_in

\* stake call i - 1 immediately followed by an unstake of what it returned
RoundTrip(i) ==
    /\ calls[i - 1].op = "stake" /\ ~calls[i - 1].raised
    /\ calls[i].op = "unstake" /\ calls[i].arg = calls[i - 1].ret

\* C3: on a non-root pool with positive reserves, stake(x) followed at once
\* by unstake(alpha_bought) returns x and restores tao_in and alpha_in
C3_StakeUnstakeRoundTrip ==
    \A i \in 2..Len(calls) :
        (RoundTrip(i) /\ ~calls[i - 1].before.is_root
                      /\ PositiveReserves(calls[i - 1].before))
            => /\ ~calls[i].raised
               /\ calls[i].ret = calls[i - 1].arg
               /\ calls[i].after.tao_in = calls[i - 1].before.tao_in
               /\ calls[i].after.alpha_in = calls[i - 1].before.alpha_in

C3_Witness ==
    \E i \in 2..Len(calls) :
        /\ RoundTrip(i) /\ ~calls[i - 1].before.is_root
        /\ PositiveReserves(calls[i - 1].before)
        /\ RLt(Zero, calls[i - 1].arg)
        /\ calls[i - 1].after.tao_in # calls[i - 1].before.tao_in

\* C4: on the root pool stake and unstake return their argument and leave
\* tao_in, alpha_in and k alone, and unstake(stake(x)) == x puts alpha_out
\* back to its prior value
C4_RootPassThrough ==
    /\ \A i \in 1..Len(calls) :
          (calls[i].before.is_root /\ calls[i].op \in {"stake", "unstake"})
              => /\ ~calls[i].raised
                 /\ calls[i].ret = calls[i].arg
                 /\ calls[i].after.tao_in = calls[i].before.tao_in
                 /\ calls[i].after.alpha_in = calls[i].before.alpha_in
                 /\ calls[i].after.k = calls[i].before.k
    /\ \A i \in 2..Len(calls) :
          (RoundTrip(i) /\ calls[i - 1].before.is_root)
              => /\ calls[i].ret = calls[i - 1].arg
                 /\ calls[i].after.alpha_out = calls[i - 1].before.alpha_out

C4_Witness ==
    \E i \in 2..Len(calls) :
        /\ RoundTrip(i) /\ calls[i - 1].before.is_root
        /\ RLt(Zero, calls[i - 1].arg)
        /\ calls[i - 1].after.alpha_out # calls[i - 1].before.alpha_out

\* ------------------------------------------------------------------------
\* Properties of a run (checked under Spec).  After ProcessBlockStep the
\* variable last holds the Subtensor as it was at the start of the step
\* (last.before), what the step computed (last.res) and its inject calls.
\* ------------------------------------------------------------------------

Stepped == last.op = "step"

\* the policy test of lines 145 and 153 on the state at the start of the step
TaoCase == RLt(SumPrices(last.before.subnets), One) \/ ~balanced

\* C2: in every state of a run every non-root pool has k == tao_in * alpha_in
\* and the root pool has k == 0
C2_KIsProduct ==
    \A sid \in DOMAIN subnets :
        IF subnets[sid].is_root
        THEN subnets[sid].k = Zero
        ELSE subnets[sid].k = RMul(subnets[sid].tao_in, subnets[sid].alpha_in)

\* a block step has injected into a pool somebody had staked into, so that
\* its reserves and its k are no longer the constructed ones
C2_Witness ==
    /\ Stepped
    /\ \E sid \in NonRoot(subnets) :
          /\ subnets[sid].k # last.before.subnets[sid].k
          /\ last.before.subnets[sid].alpha_out # Zero
          /\ RLt(Zero, subnets[sid].k)

\* C5: when block b >= 1 is advanced the root_weight its dividend weights
\* use is max(0, initial_root_weight - b * (initial_root_weight / blocks))
C5_RootWeightDecays ==
    Stepped =>
        last.before.root_weight =
            update_root_weight(initial_root_weight, blocks, last.block)

TotalGlobal ==
    LET w == calculate_weights(subnets, accounts, root_weight)
    IN  RSum(w, DOMAIN w)

TotalLocal(subnet_id) ==
    LET holders == {a \in DOMAIN accounts : subnet_id \in DOMAIN accounts[a].alpha_stakes}
    IN  RSum([a \in holders |->
                weight(subnets[subnet_id], accounts[a].alpha_stakes[subnet_id])],
             holders)

\* C8: the dividend shares of a non-root pool sum to 1.0 over all
\* participants whenever the total global weight or the pool's total local
\* weight is positive
C8_SharesSumToOne ==
    \A sid \in NonRoot(subnets) :
        (RLt(Zero, TotalGlobal) \/ RLt(Zero, TotalLocal(sid)))
            => LET d == calculate_dividends(subnets, accounts, root_weight,
                                            global_split, sid)
               IN  RSum(d, DOMAIN d) = One

\* the sum of tao_in over the non-root pools
TotalTaoIn(subnets_) ==
    RSum([p \in NonRoot(subnets_) |-> subnets_[p].tao_in], NonRoot(subnets_))

\* two non-root pools with tao_in 500 and 1500 beside a funded root pool
EmissionExample ==
    (0 :> Subnet(0, FromInt(1000), Zero, Zero, TRUE))
    @@ (1 :> Subnet(1, FromInt(500), One, Zero, FALSE))
    @@ (2 :> Subnet(2, FromInt(1500), One, Zero, FALSE))

\* C9: the emission share of a non-root pool is its tao_in over the sum of
\* tao_in of the non-root pools, the root pool has no share, all shares are
\* 0 when the sum is 0, they sum to 1 when the sum is positive, and pools
\* with tao_in 500 and 1500 get 0.25 and 0.75; a block step uses these shares
C9_EmissionShares ==
    LET e == calculate_emission(subnets)
        total == TotalTaoIn(subnets)
    IN  /\ DOMAIN e = NonRoot(subnets)
        /\ \A p \in DOMAIN e :
              e[p] = IF total = Zero THEN Zero ELSE RDiv(subnets[p].tao_in, total)
        /\ RLt(Zero, total) => RSum(e, DOMAIN e) = One
        /\ calculate_emission(EmissionExample) = (1 :> <<1, 4>>) @@ (2 :> <<3, 4>>)
        /\ Stepped =>
              \A p \in NonRoot(last.before.subnets) :
                  last.res.emit[p] =
                      IF TotalTaoIn(last.before.subnets) = Zero THEN Zero
                      ELSE RDiv(last.before.subnets[p].tao_in,
                                TotalTaoIn(last.before.subnets))

\* a block step whose pools held 1 and 3 tao, beside a root pool somebody
\* had staked into: the shares were 1/4 and 3/4
C9_Witness ==
    /\ Stepped
    /\ last.res.emit = (1 :> <<1, 4>>) @@ (2 :> <<3, 4>>)
    /\ last.before.subnets[RootId].alpha_out # Zero

\* C10: a block step adds share(a, p) to alpha_stakes[p] of every
\* participant a registered for the non-root pool p, and leaves
\* alpha_stakes[p] of every other participant as it was, key and value
C10_AccrualGatedByRegistration ==
    Stepped =>
        LET injects == last.res.injects
            b == last.before
        IN  /\ injects # <<>> =>
                  injects[1].dividends =
                      calculate_dividends(b.subnets, b.accounts, b.root_weight,
                                          global_split, injects[1].id)
            /\ \A i \in 1..Len(injects) : \A a \in DOMAIN accounts :
                  LET p == injects[i].id
                      old == b.accounts[a].alpha_stakes
                      new == accounts[a].alpha_stakes
                  IN  IF p \in accounts[a].registered_subnets
                      THEN /\ p \in DOMAIN new
                           /\ new[p] = RAdd(Get(old, p), injects[i].dividends[a])
                      ELSE /\ p \in DOMAIN new <=> p \in DOMAIN old
                           /\ p \in DOMAIN old => new[p] = old[p]

\* participant 2, not registered for a pool, had a positive share of it and
\* got no entry for it, while participant 1, registered, got one
C10_Witness ==
    /\ Stepped
    /\ \E i \in 1..Len(last.res.injects) :
          LET p == last.res.injects[i].id
          IN  /\ p \notin accounts[2].registered_subnets
              /\ RLt(Zero, last.res.injects[i].dividends[2])
              /\ p \notin DOMAIN accounts[2].alpha_stakes
              /\ p \notin DOMAIN last.before.accounts[1].alpha_stakes
              /\ p \in DOMAIN accounts[1].alpha_stakes

\* ------------------------------------------------------------------------
\* Properties of the action phase (checked under SpecSched)
\* ------------------------------------------------------------------------

\* the step taken is _execute_transaction on the next transaction of the block
TxStep == pc = "actions" /\ Pending /\ last'.op = "tx"

UnknownIds(tx) ==
    tx.account_id \notin DOMAIN accounts \/ tx.subnet_id \notin DOMAIN subnets

\* C11: a transaction naming an unknown participant or subnet changes no
\* subnet, no participant and no network scalar, raises nothing, and the run
\* goes on with the next transaction of the block
C11_UnknownIdsSkipped ==
    [][(TxStep /\ UnknownIds(last'.tx)) =>
          /\ ~last'.res.raised
          /\ UNCHANGED <<netVars, cfgVars, block, status, progress, stored>>
          /\ pc' = "actions" /\ txi' = txi + 1]_vars

\* the first transaction of a block named an unknown id and the second one,
\* with known ids, was executed and took effect
C11_Witness ==
    /\ last.op = "tx" /\ txi = 3
    /\ UnknownIds(transaction_blocks[block][1])
    /\ last.tx = transaction_blocks[block][2]
    /\ ~UnknownIds(last.tx)
    /\ subnets # last.before.subnets

\* the transaction last executed met a numeric guard condition in the state
\* it was executed in: an unstake resolving to more than the participant's
\* recorded stake in the subnet, or a stake into a non-root subnet whose
\* reserves are not both positive
OverUnstake ==
    /\ last.op = "tx" /\ ~UnknownIds(last.tx) /\ last.tx.action = "unstake"
    /\ LET held == Get(last.before.accounts[last.tx.account_id].alpha_stakes,
                        last.tx.subnet_id)
           p == parse_amount(last.tx.amount, held)
       IN  ~p.raised /\ RLt(held, p.val)

StakeIntoEmptyPool ==
    /\ last.op = "tx" /\ ~UnknownIds(last.tx) /\ last.tx.action = "stake"
    /\ ~last.before.subnets[last.tx.subnet_id].is_root
    /\ ~PositiveReserves(last.before.subnets[last.tx.subnet_id])

\* C12: a transaction that meets a numeric guard condition is rejected or
\* leaves every subnet and participant field as it was
C12_GuardedActionsChangeNothing ==
    (OverUnstake \/ StakeIntoEmptyPool) =>
        /\ subnets = last.before.subnets
        /\ accounts = last.before.accounts

\* C13: tao_in, alpha_in and alpha_out of every subnet stay >= 0 in every
\* state of a run (checked under Spec, whose subnets start with all three
\* >= 0 and whose schedules use literal, percentage and 'all' amounts)
C13_ReservesNonNegative ==
    \A sid \in DOMAIN subnets :
        /\ RLe(Zero, subnets[sid].tao_in)
        /\ RLe(Zero, subnets[sid].alpha_in)
        /\ RLe(Zero, subnets[sid].alpha_out)

UnstakeFromEmptyPool ==
    /\ last.op = "tx" /\ ~UnknownIds(last.tx) /\ last.tx.action = "unstake"
    /\ ~last.before.subnets[last.tx.subnet_id].is_root
    /\ last.before.subnets[last.tx.subnet_id].alpha_in = Zero

\* C14: a transaction that meets a numeric guard condition, or names an
\* unknown participant or subnet, does not abort the run: nothing is raised
\* and the status does not become 'failed'
C14_RunNotAborted ==
    (last.op = "tx" /\ (\/ OverUnstake \/ StakeIntoEmptyPool
                        \/ UnstakeFromEmptyPool \/ UnknownIds(last.tx)))
        => ~last.res.raised /\ status # "failed"

\* ------------------------------------------------------------------------
\* Properties of the constructor (checked under SpecCtor)
\* ------------------------------------------------------------------------

\* C15: constructing the Subtensor fails whenever blocks <= 0 or
\* n_steps <= 0, and otherwise sets log_interval to blocks // n_steps
C15_ConstructorRejects ==
    \A i \in 1..Len(calls) :
        calls[i].op = "init" =>
            IF calls[i].blocks <= 0 \/ calls[i].n_steps <= 0
            THEN calls[i].res.raised /\ ~subtensor_set
            ELSE /\ ~calls[i].res.raised /\ subtensor_set
                 /\ log_interval = calls[i].blocks \div calls[i].n_steps

\* ------------------------------------------------------------------------
\* Properties of the driver (checked under SpecEngine)
\* ------------------------------------------------------------------------

\* every transaction scheduled at the current block has been executed
BlockActionsDone ==
    block \in DOMAIN transaction_blocks => txi = Len(transaction_blocks[block]) + 1

\* the snapshot shows the subnets and participants as they are now
ShowsCurrentState(snap) ==
    /\ snap.block = block
    /\ \A sid \in DOMAIN subnets :
          /\ snap.subnets[sid].tao_in = subnets[sid].tao_in
          /\ snap.subnets[sid].alpha_in = subnets[sid].alpha_in
          /\ snap.subnets[sid].alpha_out = subnets[sid].alpha_out
          /\ snap.subnets[sid].k = subnets[sid].k
    /\ \A acc \in DOMAIN accounts :
          /\ snap.accounts[acc].free_balance = accounts[acc].free_balance
          /\ snap.accounts[acc].alpha_stakes = accounts[acc].alpha_stakes
    /\ snap.network.tao_supply = tao_supply

\* C16: blocks are processed in ascending contiguous order; within block b
\* the transactions scheduled at b come first, then (only if b # 0) exactly
\* one block step, and only then the snapshot, which therefore shows the
\* state after b's transactions and b's block step
C16_BlockOrder ==
    [][/\ block' = block \/ (last'.op = "log" /\ block' = block + 1)
       /\ last'.op \in {"tx", "step", "log"} => block < blocks
       /\ last'.op = "tx" =>
             /\ last.op \in {"start", "tx", "log"}
             /\ last.op = "tx" => last.block = block
             /\ last.op = "log" => last.block = block - 1
             /\ last'.block = block
       /\ last'.op = "step" =>
             /\ block # 0 /\ BlockActionsDone
             /\ last.op \in {"tx", "log"}
             /\ last.op = "tx" => last.block = block
             /\ last.op = "log" => last.block = block - 1
             /\ last'.block = block
       /\ last'.op = "log" =>
             /\ BlockActionsDone
             /\ IF block = 0 THEN last.op \in {"start", "tx"}
                ELSE last.op = "step" /\ last.block = block
             /\ stored' = stored
                \/ /\ Len(stored') = Len(stored) + 1
                   /\ SubSeq(stored', 1, Len(stored)) = stored
                   /\ ShowsCurrentState(stored'[Len(stored')])
       /\ last'.op = "complete" => block = blocks \/ blocks <= 0
      ]_vars

\* the snapshot of block 1 was stored after a transaction scheduled at
\* block 1 and the block step had changed the subnets
C16_Witness ==
    /\ last.op = "log" /\ last.block = 1
    /\ 1 \in DOMAIN transaction_blocks
    /\ Len(stored) = 2
    /\ stored[2].block = 1
    /\ stored[2].subnets[RootId].alpha_out # stored[1].subnets[RootId].alpha_out
    /\ stored[2].subnets[1].alpha_in # stored[1].subnets[1].alpha_in

\* the blocks whose snapshot the run has stored, in the order of storing
StoredBlocks == [i \in 1..Len(stored) |-> stored[i].block]

\* C17: a completed run has stored a snapshot for exactly the blocks b of
\* 0..blocks-1 with b % log_interval == 0 or b == blocks - 1, block 0 and
\* the final block among them, each block once
C17_SnapshotBlocks ==
    status = "completed" =>
        LET due == {b \in 0..(blocks - 1) :
                      b % log_interval = 0 \/ b = blocks - 1}
        IN  /\ {StoredBlocks[i] : i \in 1..Len(stored)} = due
            /\ \A i, j \in 1..Len(stored) :
                  i < j => StoredBlocks[i] < StoredBlocks[j]
            /\ blocks > 0 =>
                  StoredBlocks[1] = 0 /\ StoredBlocks[Len(stored)] = blocks - 1

\* a completed run of four blocks with log_interval 2: blocks 0, 2 and 3
\* were stored, block 1 was not
C17_Witness ==
    /\ status = "completed" /\ blocks = 4 /\ log_interval = 2
    /\ StoredBlocks = <<0, 2, 3>>

\* C18: taking a snapshot changes no pool field, no balance or stake and no
\* network scalar, whether or not the block is one that is stored; the
\* alpha_stakes of a snapshot are the stakes at that moment and, being a
\* copy, no later step alters a snapshot already taken
C18_SnapshotReadOnly ==
    [][/\ last'.op = "log" => UNCHANGED <<netVars, cfgVars>>
       /\ Len(stored') >= Len(stored)
       /\ \A i \in 1..Len(stored) : stored'[i] = stored[i]
       /\ (last'.op = "log" /\ Len(stored') > Len(stored)) =>
             \A acc \in DOMAIN accounts :
                stored'[Len(stored')].accounts[acc].alpha_stakes
                    = accounts'[acc].alpha_stakes
      ]_vars

\* a snapshot was just taken with account 1 holding a stake, after a block
\* that was not stored, while the first snapshot still shows the stakes of
\* block 0
C18_Witness ==
    /\ last.op = "log" /\ ~last.g.raised
    /\ Len(stored) >= 2 /\ stored[Len(stored)].block = last.block
    /\ stored[Len(stored) - 1].block < last.block - 1
    /\ accounts[1].alpha_stakes # EmptyDict
    /\ stored[Len(stored)].accounts[1].alpha_stakes = accounts[1].alpha_stakes
    /\ stored[1].accounts[1].alpha_stakes # accounts[1].alpha_stakes

\* C19: when setup() leaves BaseSimulation.subtensor None, run_simulation
\* raises at validate_setup: no transaction is executed, no block step
\* runs, nothing is stored, and the status goes from 'created' to 'failed'
\* and is never 'running' or 'completed'
C19_UninitialisedFails ==
    ~subtensor_set =>
        /\ last.op \in {"none", "start"}
        /\ stored = <<>> /\ progress = 0 /\ block = 0
        /\ status = (IF pc = "start" THEN "created" ELSE "failed")
        /\ pc \in {"start", "failed"}
        /\ pc = "failed" => last.op = "start"

\* a run without a Subtensor that had blocks to run and transactions
\* scheduled has failed
C19_Witness ==
    /\ ~subtensor_set /\ status = "failed" /\ pc = "failed"
    /\ blocks > 0 /\ 0 \in DOMAIN transaction_blocks

\* positions of the input list scheduled at block b, and the position of
\* the n-th of them counting from the head of the list
BlockPositions(b) == {p \in 1..Len(transactions) : transactions[p].block = b}

NthPosition(b, n) ==
    CHOOSE p \in BlockPositions(b) :
        Cardinality({q \in BlockPositions(b) : q <= p}) = n

\* the first n transactions scheduled at block b applied one after another
\* in the order of the input list, starting from the state start
RECURSIVE ApplyInOrder(_, _, _)
ApplyInOrder(b, n, start) ==
    IF n = 0 THEN start
    ELSE LET prev == ApplyInOrder(b, n - 1, start)
             r == execute_transaction(prev.subnets, prev.accounts,
                                      transactions[NthPosition(b, n)])
         IN  [subnets |-> r.subnets, accounts |-> r.accounts]

\* C20: the transactions of a block are executed in the order of the input
\* list, wherever other blocks stand in that list: the n-th executed is the
\* n-th of the block in the list, the state after it is the state obtained
\* by applying the first n one after another from the state at the start of
\* the block, and the action phase ends when all of them have been applied
C20_InputOrder ==
    last.op = "tx" =>
        LET n == IF last.res.raised THEN txi ELSE txi - 1
            done == txi - 1
        IN  /\ n \in 1..Cardinality(BlockPositions(block))
            /\ last.tx = transactions[NthPosition(block, n)]
            /\ [subnets |-> subnets, accounts |-> accounts]
                   = ApplyInOrder(block, done, last.start)
            /\ (pc = "actions" /\ ~Pending) =>
                   done = Cardinality(BlockPositions(block))

\* two transactions of block 1 stand around one of block 0 in the list, the
\* second of them took its amount 'all' from the balances the first left,
\* and applying the two in the other order gives another state
C20_Witness ==
    /\ last.op = "tx" /\ ~last.res.raised /\ block = 1 /\ txi = 3
    /\ Len(transactions) = 3
    /\ transactions[1].block = 1 /\ transactions[2].block = 0
    /\ transactions[3].block = 1
    /\ last.tx = transactions[3] /\ last.tx.amount = AmountAll
    /\ last.before.accounts # last.start.accounts
    /\ LET r1 == execute_transaction(last.start.subnets, last.start.accounts,
                                     transactions[3])
           r2 == execute_transaction(r1.subnets, r1.accounts, transactions[1])
       IN  ~r1.raised /\ ~r2.raised /\ r2.accounts # accounts

\* the amount a transaction of the schedules stands for, given the amount
\* available at its source
Resolved(amount, available) ==
    IF amount = AmountAll THEN available
    ELSE IF amount = AmountHalf THEN RMul(Half, available)
    ELSE One

\* C21: an executed stake or unstake resolves its amount against the free
\* balance (stake) or the stake in the target pool (unstake) at the moment
\* of execution: 'all' is the whole of it, '50%' half of it, '1' is 1; the
\* pool operation is called with that amount, the amount leaves the source
\* and the pool's return is added to the other side, so 'all' leaves the
\* source at 0
C21_AmountResolved ==
    (last.op = "tx" /\ ~last.res.raised
        /\ last.tx.action \in {"stake", "unstake"}) =>
        LET tx == last.tx
            was == last.before.accounts[tx.account_id]
            now == accounts[tx.account_id]
            staked == Get(was.alpha_stakes, tx.subnet_id)
            amt == Resolved(tx.amount, IF tx.action = "stake"
                                       THEN was.free_balance ELSE staked)
            r == IF tx.action = "stake"
                 THEN stake(last.before.subnets[tx.subnet_id], amt)
                 ELSE unstake(last.before.subnets[tx.subnet_id], amt)
        IN  /\ subnets[tx.subnet_id] = r.subnet
            /\ tx.action = "stake" =>
                  /\ now.free_balance = RSub(was.free_balance, amt)
                  /\ Get(now.alpha_stakes, tx.subnet_id) = RAdd(staked, r.ret)
                  /\ tx.amount = AmountAll => now.free_balance = Zero
            /\ tx.action = "unstake" =>
                  /\ Get(now.alpha_stakes, tx.subnet_id) = RSub(staked, amt)
                  /\ now.free_balance = RAdd(was.free_balance, r.ret)
                  /\ tx.amount = AmountAll =>
                        Get(now.alpha_stakes, tx.subnet_id) = Zero

\* participant 1 staked half of the free balance into pool 1 and then
\* unstaked 'all' of the alpha that stake returned
C21_Witness ==
    /\ last.op = "tx" /\ ~last.res.raised /\ txi = 3
    /\ transactions[1].action = "stake" /\ transactions[1].amount = AmountHalf
    /\ transactions[1].subnet_id = 1
    /\ last.tx.action = "unstake" /\ last.tx.amount = AmountAll
    /\ last.tx.subnet_id = 1
    /\ RLt(Zero, Get(last.before.accounts[1].alpha_stakes, 1))
    /\ last.before.accounts[1].free_balance = One
    /\ Get(accounts[1].alpha_stakes, 1) = Zero
    /\ RLt(One, accounts[1].free_balance)

\* the pools in which an account holds a positive stake
PositiveStakes(account) ==
    {sid \in DOMAIN subnets : RLt(Zero, Get(account.alpha_stakes, sid))}

\* what unstaking the whole stake of pool sid would return on the pool as
\* it is
UnstakeValue(account, sid) ==
    unstake(subnets[sid], Get(account.alpha_stakes, sid)).ret

\* C22: the market_value of a snapshot is free_balance plus, over the pools
\* with a positive stake, the stake itself on the root pool and
\* tao_in - k / (alpha_in + stake) elsewhere; on a non-root pool that term
\* is what unstake(stake) would return now; computing it changes nothing
C22_MarketValue ==
    [][(last'.op = "log" /\ Len(stored') > Len(stored)) =>
         /\ UNCHANGED <<netVars, cfgVars>>
         /\ \A acc \in DOMAIN accounts :
              LET account == accounts[acc]
                  held == PositiveStakes(account)
                  term == [sid \in held |->
                      IF subnets[sid].is_root
                      THEN Get(account.alpha_stakes, sid)
                      ELSE RSub(subnets[sid].tao_in,
                                RDiv(subnets[sid].k,
                                     RAdd(subnets[sid].alpha_in,
                                          Get(account.alpha_stakes, sid))))]
              IN  /\ stored'[Len(stored')].accounts[acc].market_value
                        = RAdd(account.free_balance, RSum(term, held))
                  /\ \A sid \in held :
                        ~subnets[sid].is_root =>
                            term[sid] = UnstakeValue(account, sid)
      ]_vars

\* a snapshot values participant 1, who holds stake in the root pool and
\* in pool 1, at something other than free balance plus stakes
C22_Witness ==
    /\ last.op = "log" /\ stored # <<>>
    /\ stored[Len(stored)].block = last.block
    /\ PositiveStakes(accounts[1]) = {0, 1}
    /\ stored[Len(stored)].accounts[1].market_value
          # RAdd(accounts[1].free_balance,
                 RAdd(accounts[1].alpha_stakes[0], accounts[1].alpha_stakes[1]))
    /\ stored[Len(stored)].accounts[1].market_value
          = RAdd(accounts[1].free_balance,
                 RAdd(accounts[1].alpha_stakes[0], UnstakeValue(accounts[1], 1)))

\* the run is first_block.py's and has executed the transactions of block 1
\* but not yet the step of block 1
FirstBlock ==
    /\ transactions = FirstTransactions(Amount100)
    /\ global_split = One /\ balanced
    /\ block = 1 /\ pc = "actions" /\ ~Pending
    /\ last.op = "tx"
    /\ last.start = [subnets |-> FirstSubnets,
                     accounts |-> FirstAccounts(FromInt(100))]

\* C23: in first_block.py, once the transactions of block 1 are executed
\* and before the step of block 1, the stake of 100 into pool 1 has
\* returned 1 - 1/101 alpha; pool 1 has tao_in 101 and alpha_in 1/101, and
\* participant 2 has free balance 0 and that alpha as stake
C23_FirstBlockStake ==
    FirstBlock =>
        /\ last.tx = FirstTransactions(Amount100)[2]
        /\ subnets[1].tao_in = FromInt(101)
        /\ subnets[1].alpha_in = <<1, 101>>
        /\ accounts[2].free_balance = Zero
        /\ accounts[2].alpha_stakes = (1 :> <<100, 101>>)
        /\ RSub(Get(accounts[2].alpha_stakes, 1),
                Get(last.before.accounts[2].alpha_stakes, 1))
              = RSub(One, RDiv(One, FromInt(101)))

\* first_block.py after the two stakes of block 1: participant 1 has put
\* 100 into the root pool, whose alpha_out shows it
C23_Witness ==
    /\ FirstBlock
    /\ subnets[0].alpha_out = FromInt(100)
    /\ accounts[1].free_balance = Zero
    /\ subnets[1].alpha_out = <<100, 101>>
    /\ tao_supply = FromInt(200)

\* the ids of the pools injected before the i-th inject call of the step
\* just taken
InjectedBefore(i) == {last.res.injects[j].id : j \in 1..(i - 1)}

\* the subnets and the accounts as they were when the loop of the step just
\* taken reached its i-th non-root pool: the pools visited before it have
\* their injection and their accruals, the others are as the step found
\* them
SubnetsAtInject(i) ==
    [sid \in DOMAIN subnets |->
        IF sid \in InjectedBefore(i) THEN subnets[sid]
        ELSE last.before.subnets[sid]]

AccountsAtInject(i) ==
    [acc \in DOMAIN accounts |->
        [last.before.accounts[acc] EXCEPT !.alpha_stakes =
            LET was == last.before.accounts[acc].alpha_stakes
                now == accounts[acc].alpha_stakes
            IN  Dict([sid \in DOMAIN was \cup (DOMAIN now \cap InjectedBefore(i)) |->
                        IF sid \in InjectedBefore(i) THEN now[sid] ELSE was[sid]])]]

TotalStake(accounts_, sid) ==
    RSum([acc \in DOMAIN accounts_ |-> Get(accounts_[acc].alpha_stakes, sid)],
         DOMAIN accounts_)

\* C25: in runs that start with non-negative stakes summing to at most
\* alpha_out in every pool, with global_split in [0, 1] and transactions
\* whose amounts lie between 0 and the available amount (the runs of
\* SpecStep), every pool always has the participants' stakes summing to at
\* most its alpha_out; a block step adds at most 1.0 in total to the stakes
\* of a non-root pool and exactly 1.0 to its alpha_out
C25_StakeConservation ==
    /\ \A sid \in DOMAIN subnets :
          RLe(TotalStake(accounts, sid), subnets[sid].alpha_out)
    /\ Stepped =>
          \A sid \in NonRoot(subnets) :
             /\ RLe(RSub(TotalStake(accounts, sid),
                         TotalStake(last.before.accounts, sid)), One)
             /\ subnets[sid].alpha_out
                   = RAdd(last.before.subnets[sid].alpha_out, One)

\* a step gave pool 1 a whole unit of stake and pool 2 a positive part of
\* one, the rest being the share of a participant not registered in pool 2
C25_Witness ==
    /\ Stepped
    /\ RSub(TotalStake(accounts, 1), TotalStake(last.before.accounts, 1)) = One
    /\ RLt(Zero, RSub(TotalStake(accounts, 2), TotalStake(last.before.accounts, 2)))
    /\ RLt(RSub(TotalStake(accounts, 2), TotalStake(last.before.accounts, 2)), One)
    /\ RLt(Zero, last.res.injects[2].dividends[2])
    /\ TotalStake(accounts, 1) = subnets[1].alpha_out
    /\ RLt(TotalStake(accounts, 2), subnets[2].alpha_out)

\* what the step just taken added to tao_supply and to the tao_in of the
\* non-root pools together
SupplyAdded == RSub(tao_supply, last.before.tao_supply)

TaoInAdded == RSub(TotalTaoIn(subnets), TotalTaoIn(last.before.subnets))

C27_StepFrame ==
    [][last'.op = "step" =>
         /\ \A acc \in DOMAIN accounts :
               /\ accounts'[acc].free_balance = accounts[acc].free_balance
               /\ (RootId \in DOMAIN accounts'[acc].alpha_stakes)
                     = (RootId \in DOMAIN accounts[acc].alpha_stakes)
               /\ Get(accounts'[acc].alpha_stakes, RootId)
                     = Get(accounts[acc].alpha_stakes, RootId)
               /\ accounts'[acc].registered_subnets
                     = accounts[acc].registered_subnets
         /\ DOMAIN accounts' = DOMAIN accounts
         /\ subnets'[RootId] = subnets[RootId]
         /\ UNCHANGED <<transactions, transaction_blocks>>
      ]_vars

\* a step has changed the stakes of pool 1 in a run where participant 1
\* holds a root stake and a transaction is scheduled
C27_Witness ==
    /\ Stepped
    /\ transactions # <<>>
    /\ Get(accounts[1].alpha_stakes, RootId) = One
    /\ subnets[RootId].alpha_out = One
    /\ Get(accounts[2].alpha_stakes, 1)
          # Get(last.before.accounts[2].alpha_stakes, 1)
    /\ subnets[1] # last.before.subnets[1]

\* the rank of position p of the input list among the positions scheduled
\* at the same block
Rank(p) ==
    Cardinality({q \in BlockPositions(transactions[p].block) : q <= p})

\* the positions of the input list whose transaction the run has behind
\* it: those of the blocks before the current one and the first txi - 1 of
\* the current block
ExecutedPositions ==
    {p \in 1..Len(transactions) :
        \/ transactions[p].block \in 0..(block - 1)
        \/ transactions[p].block = block /\ Rank(p) < txi}

\* C28: each execution of a transaction takes the next position of the
\* input list scheduled at the current block, a position not executed
\* before, at a block of 0..blocks-1 (block 0 included); no other step of
\* the run moves past a position without executing it; a completed run has
\* executed exactly the positions whose block lies in 0..blocks-1
C28_EachActionOnce ==
    [][/\ last'.op = "tx" =>
            /\ block \in 0..(blocks - 1)
            /\ txi \in 1..Cardinality(BlockPositions(block))
            /\ LET p == NthPosition(block, txi)
               IN  /\ last'.tx = transactions[p]
                   /\ last'.tx.block = block
                   /\ p \notin ExecutedPositions
                   /\ ExecutedPositions' =
                         IF last'.res.raised THEN ExecutedPositions
                         ELSE ExecutedPositions \cup {p}
       /\ last'.op # "tx" => ExecutedPositions' = ExecutedPositions
       /\ status' = "completed" =>
            ExecutedPositions' =
               {p \in 1..Len(transactions) :
                    transactions[p].block \in 0..(blocks - 1)}
      ]_vars

\* a completed run of two blocks whose list held a transaction of block 2
\* and then one of block 0: only the stake of block 0 reached the root pool
C28_Witness ==
    /\ status = "completed" /\ blocks = 2
    /\ Len(transactions) = 2
    /\ transactions[1].block = 2 /\ transactions[2].block = 0
    /\ ExecutedPositions = {2}
    /\ subnets[RootId].alpha_out = One
    /\ accounts[1].free_balance = One

StepRaised ==
    \/ last'.op = "start" /\ ~subtensor_set
    \/ last'.op = "tx" /\ last'.res.raised
    \/ last'.op = "log" /\ last'.g.raised

\* C30: the status goes created -> running -> completed or ends in
\* failed; 'running' is written before anything of block 0 is done; blocks
\* are processed only while 'running'; 'completed' is written only when
\* every block of 0..blocks-1 has been processed, together with a recorded
\* progress of blocks; a step that raises writes 'failed', and a failed run
\* is never 'completed'
C30_StatusLifecycle ==
    [][/\ status' # status =>
            <<status, status'>> \in {<<"created", "running">>, <<"created", "failed">>,
                                     <<"running", "completed">>, <<"running", "failed">>}
       /\ status' = "running" /\ status = "created" =>
            /\ last'.op = "start" /\ last = NoOp
            /\ block' = 0 /\ txi' = 1 /\ stored' = <<>>
            /\ progress' = 0
       /\ last'.op \in {"tx", "step", "log"} => status = "running"
       /\ status' = "completed" =>
            /\ last'.op = "complete"
            /\ block = blocks \/ (blocks <= 0 /\ block = 0)
            /\ blocks > 0 => (last.op = "log" /\ last.block = blocks - 1
                              /\ ~last.g.raised)
            /\ progress' = blocks
       /\ StepRaised => status' = "failed" /\ pc' = "failed"
       /\ status' = "failed" => StepRaised
      ]_vars

\* a run of three blocks has completed with a recorded progress of 3,
\* having executed a transaction and stored a snapshot on the way
C30_Witness ==
    /\ status = "completed" /\ blocks = 3 /\ progress = 3
    /\ ExecutedPositions # {}
    /\ stored # <<>> /\ stored[Len(stored)].block = 2

====
